---- MODULE Spec2Model ----
(***************************************************************************)
(* PRVW front end: the request-epoch discipline of the three hooks         *)
(* usePrDiff, useAnalysis and usePrList, the refine splice, and the        *)
(* coverage-and-uniqueness contract of the analysis and refine results.    *)
(*                                                                         *)
(* Spec composes the three hooks; SpecApp is the single-file App           *)
(* component; SpecSplit is the useAnalysis hook with the hunk-splitting    *)
(* step on top of usePrDiff; SpecBackend is the validation of the engine's *)
(* answers.                                                                *)
(*                                                                         *)
(* An async handler is one action per synchronous segment: the code up to  *)
(* its first await ("...Start"), and the continuation run when the awaited *)
(* backend call resolves or rejects.  The operations in flight are the     *)
(* records of `inflight`; each holds what its closure captured.            *)
(***************************************************************************)
EXTENDS Integers, Sequences, FiniteSets, TLC

\* ------------------------------------------------------------------ bounds
\* Largest number of handler calls that take an epoch or start a backend call
\* (selectPr, clearSelection, fetchPrs, runAnalysis, refineGroup,
\* resetAnalysis) in one behaviour.
MaxCalls == 4

\* null, for the string-valued error and loading, for selectedPr (PR numbers
\* start at 1) and for analysis.
Null == "null"
NoPr == 0
NoAnalysis == [version |-> 0]

\* ------------------------------------------------------------- data model
Streams == {"diff", "analysis", "prs"}

\* PrListItem, by its number.
PrNumbers == {1, 2}

\* What the user may have typed in the repository input.
RepoInputs == {<<" ">>, <<"r", " ">>}

\* String.prototype.trim on a sequence of characters.
RECURSIVE TrimStart(_)
TrimStart(s) ==
    IF s # <<>> /\ Head(s) = " " THEN TrimStart(Tail(s)) ELSE s

RECURSIVE TrimEnd(_)
TrimEnd(s) ==
    IF s # <<>> /\ s[Len(s)] = " " THEN TrimEnd(SubSeq(s, 1, Len(s) - 1)) ELSE s

Trim(s) == TrimEnd(TrimStart(s))

\* A hunk id "H<n>" is <<n>>, "H<n>.<m>" is <<n, m>>.
\* Hunk: id, the diff it was parsed from, and lines.length.
Hunk(n, d, len) == [id |-> <<n>>, diff |-> d, lines |-> len]

\* get_pr_diff: the diff text of a pull request, named by the PR's number.
DiffText(pr) == pr

\* parse_diff: PR 1 has one hunk, PR 2 has two, the second of 150 lines; ids
\* H1, H2, ... in order.
ParseDiff(d) ==
    IF d = 1 THEN << Hunk(1, d, 5) >>
    ELSE << Hunk(1, d, 5), Hunk(2, d, 150) >>

HunkIdsOf(hs) == [i \in 1..Len(hs) |-> hs[i].id]

Range(s) == {s[i] : i \in 1..Len(s)}

\* The sequence s without the elements failing Keep, order kept.
RECURSIVE SelectIds(_, _)
SelectIds(s, keep) ==
    IF s = <<>> THEN <<>>
    ELSE (IF Head(s) \in keep THEN <<Head(s)>> ELSE <<>>) \o SelectIds(Tail(s), keep)

\* IntentGroup: id and hunkIds (title, category, risk, rationale and the
\* check lists are carried along unread by every operation modelled here).
Group(gid, ids) == [id |-> gid, hunkIds |-> ids]

\* An AnalysisResult the engine may return for the hunk list hs when its
\* answer satisfies the contract: every hunk id is put in group G1, group G2
\* or unassignedHunkIds.  epoch and input record the request the answer
\* belongs to (the content of overallSummary depends on both).
AnalysisFor(hs, epoch, g1, g2) ==
    LET ids == HunkIdsOf(hs)
        groups == (IF g1 # {} THEN << Group(<<1>>, SelectIds(ids, g1)) >> ELSE <<>>)
                  \o (IF g2 # {} THEN << Group(<<2>>, SelectIds(ids, g2)) >> ELSE <<>>)
    IN [ version |-> 1,
         overallSummary |-> [epoch |-> epoch, input |-> hs],
         groups |-> groups,
         unassignedHunkIds |-> SelectIds(ids, Range(ids) \ (g1 \cup g2)),
         nonSubstantiveHunkIds |-> <<>>,
         questions |-> <<>> ]

\* The answers drawn: G1 takes the first hunks, G2 the next ones, the rest is
\* unassigned.
AnalyzeResults(hs, epoch) ==
    LET ids == HunkIdsOf(hs)
        n == Len(ids)
    IN { AnalysisFor(hs, epoch, Range(SubSeq(ids, 1, p[1])),
                     Range(SubSeq(ids, p[1] + 1, p[1] + p[2]))) :
           p \in { q \in (0..n) \X (0..n) :
                     /\ q[1] + q[2] <= n
                     /\ q[2] > 0 => q[1] > 0 } }

\* The sub-groups refine_group may return for a group when its answer
\* satisfies the contract: the group's hunkIds whole in one sub-group, or
\* split after the first id.  Sub-group ids extend the parent's id.
RefineResults(group) ==
    LET ids == group.hunkIds
    IN { << Group(group.id \o <<1>>, ids) >> }
       \cup (IF Len(ids) >= 2
              THEN { << Group(group.id \o <<1>>, SubSeq(ids, 1, 1)),
                        Group(group.id \o <<2>>, SubSeq(ids, 2, Len(ids))) >> }
              ELSE {})

\* String(e) of a rejected backend call.
AnalysisErrors == {"EngineError", "SchemaError", "ValidationError"}
DiffErrors == {"GhError"}
ParseErrors == {"ParseError"}
ListErrors == {"GhError"}

\* list_prs answers: no open PR, or PRs 1 and 2.  epoch records the request
\* an item was fetched by.
PrItem(n, epoch) == [number |-> n, epoch |-> epoch]
PrLists(epoch) == { <<>>, << PrItem(1, epoch), PrItem(2, epoch) >> }

\* The three namespaces of the cache.  A command's input is the list of hunk
\* ids it concerns, in the order the caller lists them; the key holds them
\* sorted.
CacheNamespaces == {"diff", "analysis", "refine"}
CacheInputs == { <<1>>, <<2, 1>> }
CacheKey(input) ==
    IF Len(input) = 2 /\ input[1] > input[2] THEN <<input[2], input[1]>> ELSE input
CacheKeys == { CacheKey(input) : input \in CacheInputs }
NoEntry == <<>>

\* ------------------------------------------------------------------ state
VARIABLES
    repo,          \* useRepoHistory: the repository input
    selectedPr,    \* usePrDiff: PrListItem | null
    hunks,         \* usePrDiff: Hunk[]
    prs,           \* usePrList: PrListItem[]
    analysis,      \* useAnalysis: AnalysisResult | null
    codexLog,      \* useAnalysis: the log, one element per "\n"-joined part
    fromCache,     \* useAnalysis: boolean
    error,         \* App: string | null, shared by the three hooks
    loading,       \* App: string | null, shared by the three hooks
    requestIdRef,  \* requestIdRef.current of each hook
    inflight,      \* the backend calls awaited, with their closures
    otherCalls,    \* number of calls made so far of handlers that take no epoch
    applied,       \* per stream: epoch of the last successful result applied
    last,          \* the step just taken: which handler segment, its epoch, its outcome
    store,         \* ContentCache: the entry file of each (namespace, key)
    cacheSize,     \* useCacheManager: string | null
    clearing,      \* useCacheManager: boolean
    triggered,     \* useAutoRunAnalysis: triggered.current
    hasSettings,   \* useSettings: boolean
    selectedGroupId, \* useGroupFiltering: string | null
    repoHistory    \* useRepoHistory: localStorage["prvw:repoHistory"]

uiVars == <<repo, selectedPr, hunks, prs, analysis, codexLog, fromCache, error, loading>>
cacheVars == <<store, cacheSize, clearing>>
autoVars == <<triggered, hasSettings>>
viewVars == <<selectedGroupId, repoHistory>>
vars == <<repo, selectedPr, hunks, prs, analysis, codexLog, fromCache, error, loading,
          requestIdRef, inflight, otherCalls, applied, last, cacheVars, autoVars, viewVars>>

\* superseded: a newer operation or a reset has started on the stream since
\* the operation of this step started.
Step(op, stream, id, outcome, superseded) ==
    [op |-> op, stream |-> stream, id |-> id, outcome |-> outcome,
     superseded |-> superseded]

\* An empty cache directory; the settings modal has fetched no size.
InitCache ==
    /\ store = [e \in CacheNamespaces \X CacheKeys |-> NoEntry]
    /\ cacheSize = Null
    /\ clearing = FALSE

\* A group id is a tuple as a hunk id is: "G1" is <<1>>, its sub-groups
\* <<1, 1>>, <<1, 2>>.  No selection (null) is the empty tuple, and <<0>>
\* the id of the unassigned pseudo-group.
NoSelection == <<>>
UNASSIGNED_GROUP_ID == <<0>>

\* useState(null) of useGroupFiltering; no repository history stored.
InitView ==
    /\ selectedGroupId = NoSelection
    /\ repoHistory = <<>>

\* useRef(false); prvw:lang saved by an earlier session.
InitAuto ==
    /\ triggered = FALSE
    /\ hasSettings = TRUE

InitHooks ==
    /\ repo \in RepoInputs
    /\ selectedPr = NoPr
    /\ hunks = <<>>
    /\ prs = <<>>
    /\ analysis = NoAnalysis
    /\ codexLog = <<>>
    /\ fromCache = FALSE
    /\ error = Null
    /\ loading = Null
    /\ requestIdRef = [s \in Streams |-> 0]
    /\ inflight = {}
    /\ otherCalls = 0
    /\ applied = [s \in Streams |-> 0]
    /\ last = Step("init", "none", 0, "none", FALSE)
    /\ InitCache
    /\ InitView

Init == InitHooks /\ InitAuto

\* Handler calls made so far.
Calls ==
    requestIdRef["diff"] + requestIdRef["analysis"] + requestIdRef["prs"] + otherCalls

CanStart == Calls < MaxCalls

\* A counter read without the increment.
SameRequestId(stream) == requestIdRef[stream]

\* ++requestIdRef.current
NextRequestId(stream) == requestIdRef[stream] + 1

\* A handler without the epoch check.
NeverStale(stream, id) == FALSE

\* id !== requestIdRef.current
IsStale(stream, id) == id # requestIdRef[stream]

\* Header: onRepoChange -> setRepo
SetRepo ==
    /\ \E r \in RepoInputs : r # repo /\ repo' = r
    /\ last' = Step("setRepo", "none", 0, "none", FALSE)
    /\ UNCHANGED <<cacheVars, viewVars, autoVars, selectedPr, hunks, prs, analysis, codexLog, fromCache, error, loading,
                   requestIdRef, inflight, otherCalls, applied>>

\* ------------------------------------------------------------- usePrDiff
\* selectPr up to the await of get_pr_diff.
SelectPrStart ==
    /\ CanStart
    /\ \E pr \in PrNumbers :
        LET id == NextRequestId("diff")
        IN /\ requestIdRef' = [requestIdRef EXCEPT !["diff"] = id]
           /\ error' = Null
           /\ selectedPr' = pr
           /\ loading' = "Fetching diff..."
           /\ inflight' = inflight \cup
                 { [op |-> "selectPr", id |-> id, pr |-> pr,
                    await |-> "get_pr_diff", diff |-> 0] }
           /\ last' = Step("selectPr", "diff", id, "start", FALSE)
    /\ UNCHANGED <<cacheVars, viewVars, autoVars, repo, hunks, prs, analysis, codexLog, fromCache, otherCalls, applied>>

\* get_pr_diff resolved: the epoch check, then the await of parse_diff.
SelectPrDiffFetched ==
    \E c \in inflight :
        /\ c.op = "selectPr" /\ c.await = "get_pr_diff"
        /\ IF IsStale("diff", c.id)
           THEN /\ inflight' = inflight \ {c}
                /\ last' = Step("selectPr", "diff", c.id, "dropped",
                        c.id # requestIdRef["diff"])
           ELSE /\ inflight' = (inflight \ {c}) \cup
                      { [c EXCEPT !.await = "parse_diff", !.diff = DiffText(c.pr)] }
                /\ last' = Step("selectPr", "diff", c.id, "fetched",
                        c.id # requestIdRef["diff"])
        /\ UNCHANGED <<cacheVars, viewVars, autoVars, uiVars, requestIdRef, otherCalls, applied>>

\* parse_diff resolved: the epoch check, setHunks, and the finally block.
SelectPrParsed ==
    \E c \in inflight :
        /\ c.op = "selectPr" /\ c.await = "parse_diff"
        /\ inflight' = inflight \ {c}
        /\ IF IsStale("diff", c.id)
           THEN /\ last' = Step("selectPr", "diff", c.id, "dropped",
                        c.id # requestIdRef["diff"])
                /\ UNCHANGED <<hunks, loading, applied>>
           ELSE /\ hunks' = ParseDiff(c.diff)
                /\ loading' = Null
                /\ applied' = [applied EXCEPT !["diff"] = c.id]
                /\ last' = Step("selectPr", "diff", c.id, "applied",
                        c.id # requestIdRef["diff"])
        /\ UNCHANGED <<cacheVars, viewVars, autoVars, repo, selectedPr, prs, analysis, codexLog, fromCache, error,
                       requestIdRef, otherCalls>>

\* A catch block that leaves the hunks as they are.
KeptHunks(hs) == hs

\* setHunks([]) of the catch block.
HunksAfterFailure(hs) == <<>>

\* get_pr_diff or parse_diff rejected: catch and finally.
SelectPrFailed ==
    \E c \in inflight :
        /\ c.op = "selectPr"
        /\ inflight' = inflight \ {c}
        /\ IF IsStale("diff", c.id)
           THEN /\ last' = Step("selectPr", "diff", c.id, "failed_dropped",
                        c.id # requestIdRef["diff"])
                /\ UNCHANGED <<error, hunks, loading>>
           ELSE /\ \E e \in (IF c.await = "get_pr_diff" THEN DiffErrors ELSE ParseErrors) :
                      error' = e
                /\ hunks' = HunksAfterFailure(hunks)
                /\ loading' = Null
                /\ last' = Step("selectPr", "diff", c.id, "failed",
                        c.id # requestIdRef["diff"])
        /\ UNCHANGED <<cacheVars, viewVars, autoVars, repo, selectedPr, prs, analysis, codexLog, fromCache,
                       requestIdRef, otherCalls, applied>>

\* A clearSelection on a request counter that usePrDiff and useAnalysis share.
clearSelectionSharedCounter ==
    /\ CanStart
    /\ requestIdRef' = [requestIdRef EXCEPT !["diff"] = @ + 1, !["analysis"] = @ + 1]
    /\ selectedPr' = NoPr
    /\ hunks' = <<>>
    /\ last' = Step("clearSelection", "diff", requestIdRef["diff"] + 1, "reset", FALSE)
    /\ UNCHANGED <<cacheVars, viewVars, autoVars, repo, prs, analysis, codexLog, fromCache, error, loading,
                   inflight, otherCalls, applied>>

clearSelection ==
    /\ CanStart
    /\ requestIdRef' = [requestIdRef EXCEPT !["diff"] = @ + 1]
    /\ selectedPr' = NoPr
    /\ hunks' = <<>>
    /\ last' = Step("clearSelection", "diff", requestIdRef["diff"] + 1, "reset", FALSE)
    /\ UNCHANGED <<cacheVars, viewVars, autoVars, repo, prs, analysis, codexLog, fromCache, error, loading,
                   inflight, otherCalls, applied>>

\* ------------------------------------------------------------- usePrList
\* fetchPrs up to the await of list_prs, or its early return.
FetchPrsStart ==
    /\ CanStart
    /\ LET id == NextRequestId("prs")
       IN /\ requestIdRef' = [requestIdRef EXCEPT !["prs"] = id]
          /\ IF Trim(repo) = <<>>
             THEN /\ error' = "Please enter a repository (owner/repo)."
                  /\ last' = Step("fetchPrs", "prs", id, "early", FALSE)
                  /\ UNCHANGED <<loading, inflight>>
             ELSE /\ error' = Null
                  /\ loading' = "Fetching PRs..."
                  /\ inflight' = inflight \cup
                        { [op |-> "fetchPrs", id |-> id] }
                  /\ last' = Step("fetchPrs", "prs", id, "start", FALSE)
    /\ UNCHANGED <<cacheVars, viewVars, autoVars, repo, selectedPr, hunks, prs, analysis, codexLog, fromCache,
                   otherCalls, applied>>

\* list_prs resolved: the epoch check, setPrs, the empty-list message, finally.
\* (onFetched(repo) persists the repository name and touches none of this state.)
FetchPrsResolved ==
    \E c \in inflight :
        /\ c.op = "fetchPrs"
        /\ inflight' = inflight \ {c}
        /\ IF IsStale("prs", c.id)
           THEN /\ last' = Step("fetchPrs", "prs", c.id, "dropped",
                        c.id # requestIdRef["prs"])
                /\ UNCHANGED <<prs, error, loading, applied>>
           ELSE /\ \E items \in PrLists(c.id) :
                      /\ prs' = items
                      /\ error' = IF Len(items) = 0 THEN "No open PRs found." ELSE error
                /\ loading' = Null
                /\ applied' = [applied EXCEPT !["prs"] = c.id]
                /\ last' = Step("fetchPrs", "prs", c.id, "applied",
                        c.id # requestIdRef["prs"])
        /\ UNCHANGED <<cacheVars, viewVars, autoVars, repo, selectedPr, hunks, analysis, codexLog, fromCache,
                       requestIdRef, otherCalls>>

\* list_prs rejected: catch and finally.
FetchPrsFailed ==
    \E c \in inflight :
        /\ c.op = "fetchPrs"
        /\ inflight' = inflight \ {c}
        /\ IF IsStale("prs", c.id)
           THEN /\ last' = Step("fetchPrs", "prs", c.id, "failed_dropped",
                        c.id # requestIdRef["prs"])
                /\ UNCHANGED <<error, loading>>
           ELSE /\ \E e \in ListErrors : error' = e
                /\ loading' = Null
                /\ last' = Step("fetchPrs", "prs", c.id, "failed",
                        c.id # requestIdRef["prs"])
        /\ UNCHANGED <<cacheVars, viewVars, autoVars, repo, selectedPr, hunks, prs, analysis, codexLog, fromCache,
                       requestIdRef, otherCalls, applied>>

\* ------------------------------------------------------------ useAnalysis
\* A runAnalysis without the check of the hunk list.
NeverEmptyInput(hs) == FALSE

\* hunks.length === 0
EmptyInput(hs) == Len(hs) = 0

\* runAnalysis(force) up to the await of analyzeIntents, or its early return.
RunAnalysisCall(force) ==
    /\ CanStart
    /\  LET id == NextRequestId("analysis")
        IN /\ requestIdRef' = [requestIdRef EXCEPT !["analysis"] = id]
           /\ codexLog' = <<>>
           /\ fromCache' = FALSE
           /\ IF EmptyInput(hunks)
              THEN /\ error' = "No hunks to analyze. Select a PR first."
                   /\ last' = Step("runAnalysis", "analysis", id, "early", FALSE)
                   /\ UNCHANGED <<loading, inflight>>
              ELSE /\ error' = Null
                   /\ loading' = IF force THEN "Re-running intent analysis"
                                          ELSE "Running intent analysis"
                   /\ inflight' = inflight \cup
                         { [op |-> "runAnalysis", id |-> id, hunks |-> hunks,
                            force |-> force] }
                   /\ last' = Step("runAnalysis", "analysis", id, "start", FALSE)
    /\ UNCHANGED <<cacheVars, viewVars, repo, selectedPr, hunks, prs, analysis, otherCalls, applied>>

\* A call of runAnalysis by its owner, with or without force.
RunAnalysisStart ==
    /\ \E force \in BOOLEAN : RunAnalysisCall(force)
    /\ UNCHANGED autoVars

\* analyzeIntents resolved: the epoch check, the three setters, finally.
RunAnalysisResolved ==
    \E c \in inflight :
        /\ c.op = "runAnalysis"
        /\ inflight' = inflight \ {c}
        /\ IF IsStale("analysis", c.id)
           THEN /\ last' = Step("runAnalysis", "analysis", c.id, "dropped",
                        c.id # requestIdRef["analysis"])
                /\ UNCHANGED <<analysis, codexLog, fromCache, loading, applied>>
           ELSE /\ \E res \in AnalyzeResults(c.hunks, c.id) : analysis' = res
                /\ codexLog' = << c.id >>
                /\ \E cached \in (IF c.force THEN {FALSE} ELSE BOOLEAN) :
                      fromCache' = cached
                /\ loading' = Null
                /\ applied' = [applied EXCEPT !["analysis"] = c.id]
                /\ last' = Step("runAnalysis", "analysis", c.id, "applied",
                        c.id # requestIdRef["analysis"])
        /\ UNCHANGED <<cacheVars, viewVars, autoVars, repo, selectedPr, hunks, prs, error, requestIdRef, otherCalls>>

\* A catch block that clears the displayed analysis, as selectPr's clears hunks.
RunAnalysisFailedClearing ==
    \E c \in inflight :
        /\ c.op = "runAnalysis"
        /\ inflight' = inflight \ {c}
        /\ IF c.id # requestIdRef["analysis"]
           THEN /\ last' = Step("runAnalysis", "analysis", c.id, "failed_dropped", TRUE)
                /\ UNCHANGED <<error, loading, analysis>>
           ELSE /\ \E e \in AnalysisErrors : error' = e
                /\ analysis' = NoAnalysis
                /\ loading' = Null
                /\ last' = Step("runAnalysis", "analysis", c.id, "failed", FALSE)
        /\ UNCHANGED <<cacheVars, viewVars, autoVars, repo, selectedPr, hunks, prs, codexLog, fromCache,
                       requestIdRef, otherCalls, applied>>

\* analyzeIntents rejected: catch and finally.
RunAnalysisFailed ==
    \E c \in inflight :
        /\ c.op = "runAnalysis"
        /\ inflight' = inflight \ {c}
        /\ IF IsStale("analysis", c.id)
           THEN /\ last' = Step("runAnalysis", "analysis", c.id, "failed_dropped",
                        c.id # requestIdRef["analysis"])
                /\ UNCHANGED <<error, loading>>
           ELSE /\ \E e \in AnalysisErrors : error' = e
                /\ loading' = Null
                /\ last' = Step("runAnalysis", "analysis", c.id, "failed",
                        c.id # requestIdRef["analysis"])
        /\ UNCHANGED <<cacheVars, viewVars, autoVars, repo, selectedPr, hunks, prs, analysis, codexLog, fromCache,
                       requestIdRef, otherCalls, applied>>

\* A splice that pushes the sub-groups after the kept groups.
RECURSIVE KeptGroups(_, _)
KeptGroups(groups, gid) ==
    IF groups = <<>> THEN <<>>
    ELSE (IF Head(groups).id = gid THEN <<>> ELSE << Head(groups) >>)
         \o KeptGroups(Tail(groups), gid)

SpliceAtEnd(groups, gid, subGroups) == KeptGroups(groups, gid) \o subGroups

\* The loop of refineGroup's functional setState: every group whose id is the
\* refined group's id gives way to the sub-groups, the others are kept.
RECURSIVE SpliceGroups(_, _, _)
SpliceGroups(groups, gid, subGroups) ==
    IF groups = <<>> THEN <<>>
    ELSE (IF Head(groups).id = gid THEN subGroups ELSE << Head(groups) >>)
         \o SpliceGroups(Tail(groups), gid, subGroups)

\* An updater that adds the sub-groups at the end when no group has the
\* refined group's id.
ApplyRefineOrAppend(prev, group, subGroups) ==
    IF prev = NoAnalysis THEN prev
    ELSE IF \E i \in 1..Len(prev.groups) : prev.groups[i].id = group.id
         THEN [prev EXCEPT !.groups = SpliceGroups(prev.groups, group.id, subGroups)]
         ELSE [prev EXCEPT !.groups = prev.groups \o subGroups]

\* setAnalysis((prev) => ...) of refineGroup.
ApplyRefine(prev, group, subGroups) ==
    IF prev = NoAnalysis THEN prev
    ELSE [prev EXCEPT !.groups = SpliceGroups(prev.groups, group.id, subGroups)]

\* refineGroup(group) up to the await of refineGroupApi.  The group is
\* one of the displayed analysis (GroupsPane hands over the rendered object).
\* refineGroup takes no epoch: id numbers the call, and epoch notes the
\* analysis stream's counter at the call, which the handler never reads.
RefineGroupStart ==
    /\ CanStart
    /\ analysis # NoAnalysis
    /\ \E i \in 1..Len(analysis.groups) :
          /\ inflight' = inflight \cup
                { [op |-> "refineGroup", id |-> otherCalls + 1,
                   epoch |-> requestIdRef["analysis"],
                   group |-> analysis.groups[i], hunks |-> hunks] }
          /\ last' = Step("refineGroup", "analysis", otherCalls + 1, "start", FALSE)
    /\ otherCalls' = otherCalls + 1
    /\ error' = Null
    /\ loading' = "Refining"
    /\ UNCHANGED <<cacheVars, viewVars, autoVars, repo, selectedPr, hunks, prs, analysis, codexLog, fromCache,
                   requestIdRef, applied>>

\* refineGroupApi resolved: the splice, the log, the cache badge, finally.
RefineGroupResolved ==
    \E c \in inflight :
        /\ c.op = "refineGroup"
        /\ inflight' = inflight \ {c}
        /\ \E subGroups \in RefineResults(c.group) :
              analysis' = ApplyRefine(analysis, c.group, subGroups)
        /\ codexLog' = Append(codexLog, 0)
        /\ \E cached \in BOOLEAN :
              fromCache' = IF ~cached THEN FALSE ELSE fromCache
        /\ loading' = Null
        /\ last' = Step("refineGroup", "analysis", c.id, "applied",
                        c.epoch # requestIdRef["analysis"])
        /\ UNCHANGED <<cacheVars, viewVars, autoVars, repo, selectedPr, hunks, prs, error, requestIdRef,
                       otherCalls, applied>>

\* refineGroupApi rejected: catch and finally.
RefineGroupFailed ==
    \E c \in inflight :
        /\ c.op = "refineGroup"
        /\ inflight' = inflight \ {c}
        /\ \E e \in AnalysisErrors : error' = e
        /\ loading' = Null
        /\ last' = Step("refineGroup", "analysis", c.id, "failed",
                        c.epoch # requestIdRef["analysis"])
        /\ UNCHANGED <<cacheVars, viewVars, autoVars, repo, selectedPr, hunks, prs, analysis, codexLog, fromCache,
                       requestIdRef, otherCalls, applied>>

\* A resetAnalysis that also clears the error bar.
resetAnalysisClearingError ==
    /\ CanStart
    /\ requestIdRef' = [requestIdRef EXCEPT !["analysis"] = @ + 1]
    /\ analysis' = NoAnalysis
    /\ codexLog' = <<>>
    /\ fromCache' = FALSE
    /\ error' = Null
    /\ last' = Step("resetAnalysis", "analysis", requestIdRef["analysis"] + 1, "reset", FALSE)
    /\ UNCHANGED <<cacheVars, viewVars, autoVars, repo, selectedPr, hunks, prs, loading, inflight,
                   otherCalls, applied>>

resetAnalysis ==
    /\ CanStart
    /\ requestIdRef' = [requestIdRef EXCEPT !["analysis"] = @ + 1]
    /\ analysis' = NoAnalysis
    /\ codexLog' = <<>>
    /\ fromCache' = FALSE
    /\ last' = Step("resetAnalysis", "analysis", requestIdRef["analysis"] + 1, "reset", FALSE)
    /\ UNCHANGED <<cacheVars, viewVars, autoVars, repo, selectedPr, hunks, prs, error, loading, inflight,
                   otherCalls, applied>>

\* The error bar's close button: setError(null).
DismissError ==
    /\ error # Null
    /\ error' = Null
    /\ last' = Step("dismissError", "none", 0, "none", FALSE)
    /\ UNCHANGED <<cacheVars, viewVars, autoVars, repo, selectedPr, hunks, prs, analysis, codexLog, fromCache, loading,
                   requestIdRef, inflight, otherCalls, applied>>

Next ==
    \/ SetRepo
    \/ SelectPrStart
    \/ SelectPrDiffFetched
    \/ SelectPrParsed
    \/ SelectPrFailed
    \/ clearSelection
    \/ FetchPrsStart
    \/ FetchPrsResolved
    \/ FetchPrsFailed
    \/ RunAnalysisStart
    \/ RunAnalysisResolved
    \/ RunAnalysisFailed
    \/ RefineGroupStart
    \/ RefineGroupResolved
    \/ RefineGroupFailed
    \/ resetAnalysis
    \/ DismissError

Spec == Init /\ [][Next]_vars

\* ------------------------------------------------ App.tsx, the single-file App
\* The App component that holds prs, selectedPr, hunks, analysis, error and
\* loading itself and whose runAnalysis splits large hunks first.  It keeps no
\* request counter: requestIdRef, otherCalls, applied, codexLog and fromCache
\* are not part of it and stay as Init leaves them.  A handler is enabled when
\* the element it is bound to is rendered and not disabled.

\* "Split large hunks (>100 lines)".
LargeHunkLines == 100

IsLarge(h) == h.lines > LargeHunkLines

LargeCount(hs) == Cardinality({ i \in 1..Len(hs) : IsLarge(hs[i]) })

\* split_large_hunks: every large hunk gives way to two children whose ids
\* extend its id and whose lines add up to its lines.
RECURSIVE SplitLargeHunks(_)
SplitLargeHunks(hs) ==
    IF hs = <<>> THEN <<>>
    ELSE LET h == Head(hs)
         IN (IF IsLarge(h)
             THEN << [h EXCEPT !.id = h.id \o <<1>>, !.lines = h.lines \div 2],
                     [h EXCEPT !.id = h.id \o <<2>>, !.lines = h.lines - (h.lines \div 2)] >>
             ELSE << h >>)
            \o SplitLargeHunks(Tail(hs))

appFrame == <<codexLog, fromCache, requestIdRef, applied, cacheVars, viewVars, autoVars>>

\* The number of a call that takes no epoch (it tells the pending calls apart).
NextCall == otherCalls + 1

\* fetchPrs (the Fetch button, disabled while loading) up to the await, or its
\* early return.
AppFetchPrsStart ==
    /\ CanStart
    /\ otherCalls' = NextCall
    /\ loading = Null
    /\ IF Trim(repo) = <<>>
       THEN /\ error' = "Please enter a repository (owner/repo)."
            /\ last' = Step("App.fetchPrs", "none", 0, "early", FALSE)
            /\ UNCHANGED <<loading, inflight>>
       ELSE /\ error' = Null
            /\ loading' = "Fetching PRs..."
            /\ inflight' = inflight \cup { [op |-> "App.fetchPrs", id |-> NextCall] }
            /\ last' = Step("App.fetchPrs", "none", 0, "start", FALSE)
    /\ UNCHANGED <<repo, selectedPr, hunks, prs, analysis, appFrame>>

\* list_prs resolved.
AppFetchPrsResolved ==
    \E c \in inflight :
        /\ c.op = "App.fetchPrs"
        /\ inflight' = inflight \ {c}
        /\ \E items \in PrLists(0) :
              /\ prs' = items
              /\ error' = IF Len(items) = 0 THEN "No open PRs found." ELSE error
        /\ selectedPr' = NoPr
        /\ hunks' = <<>>
        /\ analysis' = NoAnalysis
        /\ loading' = Null
        /\ last' = Step("App.fetchPrs", "none", 0, "applied", FALSE)
        /\ UNCHANGED <<repo, otherCalls, appFrame>>

\* list_prs rejected.
AppFetchPrsFailed ==
    \E c \in inflight :
        /\ c.op = "App.fetchPrs"
        /\ inflight' = inflight \ {c}
        /\ \E e \in ListErrors : error' = e
        /\ loading' = Null
        /\ last' = Step("App.fetchPrs", "none", 0, "failed", FALSE)
        /\ UNCHANGED <<repo, selectedPr, hunks, prs, analysis, otherCalls, appFrame>>

\* selectPr (a row of the PR list, rendered while no PR is selected) up to the
\* await of get_pr_diff.
AppSelectPrStart ==
    /\ CanStart
    /\ otherCalls' = NextCall
    /\ selectedPr = NoPr
    /\ \E i \in 1..Len(prs) :
        LET call == [op |-> "App.selectPr", id |-> NextCall, pr |-> prs[i].number,
                     await |-> "get_pr_diff", diff |-> 0]
        IN /\ error' = Null
           /\ selectedPr' = prs[i].number
           /\ analysis' = NoAnalysis
           /\ loading' = "Fetching diff..."
           /\ inflight' = inflight \cup {call}
           /\ last' = Step("App.selectPr", "none", 0, "start", FALSE)
    /\ UNCHANGED <<repo, hunks, prs, appFrame>>

\* get_pr_diff resolved: setRawDiff, then the await of parse_diff.
AppSelectPrDiffFetched ==
    \E c \in inflight :
        /\ c.op = "App.selectPr" /\ c.await = "get_pr_diff"
        /\ LET call == [c EXCEPT !.await = "parse_diff", !.diff = DiffText(c.pr)]
           IN /\ inflight' = (inflight \ {c}) \cup {call}
        /\ last' = Step("App.selectPr", "none", 0, "fetched", FALSE)
        /\ UNCHANGED <<uiVars, otherCalls, appFrame>>

\* parse_diff resolved: setHunks and the finally block.
AppSelectPrParsed ==
    \E c \in inflight :
        /\ c.op = "App.selectPr" /\ c.await = "parse_diff"
        /\ inflight' = inflight \ {c}
        /\ hunks' = ParseDiff(c.diff)
        /\ loading' = Null
        /\ last' = Step("App.selectPr", "none", 0, "applied", FALSE)
        /\ UNCHANGED <<repo, selectedPr, prs, analysis, error, otherCalls, appFrame>>

\* get_pr_diff or parse_diff rejected: catch and finally.
AppSelectPrFailed ==
    \E c \in inflight :
        /\ c.op = "App.selectPr"
        /\ inflight' = inflight \ {c}
        /\ \E e \in (IF c.await = "get_pr_diff" THEN DiffErrors ELSE ParseErrors) :
              error' = e
        /\ hunks' = <<>>
        /\ loading' = Null
        /\ last' = Step("App.selectPr", "none", 0, "failed", FALSE)
        /\ UNCHANGED <<repo, selectedPr, prs, analysis, otherCalls, appFrame>>

\* runAnalysis (the Run button, rendered while a PR is selected, disabled while
\* loading or without hunks) up to its first await: split_large_hunks when a
\* hunk is large, analyze_intents_with_codex otherwise.
AppRunAnalysisStart ==
    /\ CanStart
    /\ otherCalls' = NextCall
    /\ selectedPr # NoPr
    /\ loading = Null
    /\ Len(hunks) # 0
    /\ LET split == LargeCount(hunks) > 0
           call == [op |-> "App.runAnalysis", id |-> NextCall, hunks |-> hunks,
                    await |-> IF split THEN "split_large_hunks"
                                       ELSE "analyze_intents_with_codex"]
       IN /\ loading' = IF split THEN "Splitting large hunk(s) with Codex..."
                                 ELSE "Running intent analysis with Codex..."
          /\ inflight' = inflight \cup {call}
    /\ error' = Null
    /\ last' = Step("App.runAnalysis", "none", 0, "start", FALSE)
    /\ UNCHANGED <<repo, selectedPr, hunks, prs, analysis, appFrame>>

\* split_large_hunks resolved: setHunks(currentHunks), then the await of
\* analyze_intents_with_codex on the split hunks.
AppSplitResolved ==
    \E c \in inflight :
        /\ c.op = "App.runAnalysis" /\ c.await = "split_large_hunks"
        /\ LET currentHunks == SplitLargeHunks(c.hunks)
               call == [c EXCEPT !.await = "analyze_intents_with_codex",
                                 !.hunks = currentHunks]
           IN /\ hunks' = currentHunks
              /\ inflight' = (inflight \ {c}) \cup {call}
        /\ loading' = "Running intent analysis with Codex..."
        /\ last' = Step("App.runAnalysis", "none", 0, "split", FALSE)
        /\ UNCHANGED <<repo, selectedPr, prs, analysis, error, otherCalls, appFrame>>

\* split_large_hunks rejected: the error message, then the analysis of the
\* original hunks.
AppSplitFailed ==
    \E c \in inflight :
        /\ c.op = "App.runAnalysis" /\ c.await = "split_large_hunks"
        /\ LET call == [c EXCEPT !.await = "analyze_intents_with_codex"]
           IN /\ inflight' = (inflight \ {c}) \cup {call}
        /\ error' = "Hunk splitting failed (continuing with original hunks)"
        /\ loading' = "Running intent analysis with Codex..."
        /\ last' = Step("App.runAnalysis", "none", 0, "split_failed", FALSE)
        /\ UNCHANGED <<repo, selectedPr, hunks, prs, analysis, otherCalls, appFrame>>

\* analyze_intents_with_codex resolved: setAnalysis and the finally block.
AppRunAnalysisResolved ==
    \E c \in inflight :
        /\ c.op = "App.runAnalysis" /\ c.await = "analyze_intents_with_codex"
        /\ inflight' = inflight \ {c}
        /\ \E res \in AnalyzeResults(c.hunks, 0) : analysis' = res
        /\ loading' = Null
        /\ last' = Step("App.runAnalysis", "none", 0, "applied", FALSE)
        /\ UNCHANGED <<repo, selectedPr, hunks, prs, error, otherCalls, appFrame>>

\* analyze_intents_with_codex rejected: catch and finally.
AppRunAnalysisFailed ==
    \E c \in inflight :
        /\ c.op = "App.runAnalysis" /\ c.await = "analyze_intents_with_codex"
        /\ inflight' = inflight \ {c}
        /\ \E e \in AnalysisErrors : error' = e
        /\ loading' = Null
        /\ last' = Step("App.runAnalysis", "none", 0, "failed", FALSE)
        /\ UNCHANGED <<repo, selectedPr, hunks, prs, analysis, otherCalls, appFrame>>

\* The Back button, rendered while a PR is selected.
goBackToList ==
    /\ selectedPr # NoPr
    /\ selectedPr' = NoPr
    /\ hunks' = <<>>
    /\ analysis' = NoAnalysis
    /\ last' = Step("App.goBackToList", "none", 0, "reset", FALSE)
    /\ UNCHANGED <<repo, prs, error, loading, inflight, otherCalls, appFrame>>

NextApp ==
    \/ SetRepo
    \/ AppFetchPrsStart
    \/ AppFetchPrsResolved
    \/ AppFetchPrsFailed
    \/ AppSelectPrStart
    \/ AppSelectPrDiffFetched
    \/ AppSelectPrParsed
    \/ AppSelectPrFailed
    \/ AppRunAnalysisStart
    \/ AppSplitResolved
    \/ AppSplitFailed
    \/ AppRunAnalysisResolved
    \/ AppRunAnalysisFailed
    \/ goBackToList
    \/ DismissError

SpecApp == Init /\ [][NextApp]_vars

\* ------------------------------------- useAnalysis with the hunk-splitting step
\* The useAnalysis hook whose runAnalysis splits large hunks first and hands
\* the split hunks to the setHunks it is given, composed with usePrDiff above
\* (whose hunks and setHunks it takes as options).  This runAnalysis takes no
\* epoch.  logs is the local variable of the call.

splitFrame == <<repo, prs, fromCache, applied, cacheVars, viewVars, autoVars>>

\* runAnalysis up to its first await, or its early return.
SplitRunAnalysisStart ==
    /\ CanStart
    /\ otherCalls' = NextCall
    /\ codexLog' = <<>>
    /\ IF Len(hunks) = 0
       THEN /\ error' = "No hunks to analyze. Select a PR first."
            /\ last' = Step("runAnalysis", "analysis", 0, "early", FALSE)
            /\ UNCHANGED <<loading, inflight>>
       ELSE LET split == LargeCount(hunks) > 0
                call == [op |-> "runAnalysis", id |-> NextCall, hunks |-> hunks, logs |-> <<>>,
                         await |-> IF split THEN "split_large_hunks"
                                            ELSE "analyze_intents_with_codex"]
            IN /\ error' = Null
               /\ loading' = IF split THEN "Splitting large hunk(s) with Codex..."
                                      ELSE "Running intent analysis with Codex..."
               /\ inflight' = inflight \cup {call}
               /\ last' = Step("runAnalysis", "analysis", 0, "start", FALSE)
    /\ UNCHANGED <<selectedPr, hunks, analysis, requestIdRef, splitFrame>>

\* split_large_hunks resolved: setHunks(currentHunks), then the await of
\* analyze_intents_with_codex on the split hunks.
SplitRunAnalysisSplit ==
    \E c \in inflight :
        /\ c.op = "runAnalysis" /\ c.await = "split_large_hunks"
        /\ LET currentHunks == SplitLargeHunks(c.hunks)
               call == [c EXCEPT !.await = "analyze_intents_with_codex",
                                 !.hunks = currentHunks,
                                 !.logs = Append(c.logs, "split")]
           IN /\ hunks' = currentHunks
              /\ inflight' = (inflight \ {c}) \cup {call}
        /\ loading' = "Running intent analysis with Codex..."
        /\ last' = Step("runAnalysis", "analysis", 0, "split", FALSE)
        /\ UNCHANGED <<selectedPr, analysis, codexLog, error, requestIdRef, otherCalls, splitFrame>>

\* split_large_hunks rejected: the error message, then the analysis of the
\* original hunks.
SplitRunAnalysisSplitFailed ==
    \E c \in inflight :
        /\ c.op = "runAnalysis" /\ c.await = "split_large_hunks"
        /\ LET call == [c EXCEPT !.await = "analyze_intents_with_codex"]
           IN /\ inflight' = (inflight \ {c}) \cup {call}
        /\ error' = "Hunk splitting failed (continuing with original hunks)"
        /\ loading' = "Running intent analysis with Codex..."
        /\ last' = Step("runAnalysis", "analysis", 0, "split_failed", FALSE)
        /\ UNCHANGED <<selectedPr, hunks, analysis, codexLog, requestIdRef, otherCalls, splitFrame>>

\* analyze_intents_with_codex resolved: setAnalysis and the finally block.
SplitRunAnalysisResolved ==
    \E c \in inflight :
        /\ c.op = "runAnalysis" /\ c.await = "analyze_intents_with_codex"
        /\ inflight' = inflight \ {c}
        /\ \E res \in AnalyzeResults(c.hunks, 0) : analysis' = res
        /\ loading' = Null
        /\ codexLog' = Append(c.logs, "analysis")
        /\ last' = Step("runAnalysis", "analysis", 0, "applied", FALSE)
        /\ UNCHANGED <<selectedPr, hunks, error, requestIdRef, otherCalls, splitFrame>>

\* analyze_intents_with_codex rejected: catch and finally.
SplitRunAnalysisFailed ==
    \E c \in inflight :
        /\ c.op = "runAnalysis" /\ c.await = "analyze_intents_with_codex"
        /\ inflight' = inflight \ {c}
        /\ \E e \in AnalysisErrors : error' = e
        /\ loading' = Null
        /\ codexLog' = c.logs
        /\ last' = Step("runAnalysis", "analysis", 0, "failed", FALSE)
        /\ UNCHANGED <<selectedPr, hunks, analysis, requestIdRef, otherCalls, splitFrame>>

\* resetAnalysis of this hook: setAnalysis(null), setCodexLog("").
SplitResetAnalysis ==
    /\ analysis # NoAnalysis \/ codexLog # <<>>
    /\ analysis' = NoAnalysis
    /\ codexLog' = <<>>
    /\ last' = Step("resetAnalysis", "analysis", 0, "reset", FALSE)
    /\ UNCHANGED <<selectedPr, hunks, error, loading, inflight, requestIdRef, otherCalls, splitFrame>>

NextSplit ==
    \/ SelectPrStart
    \/ SelectPrDiffFetched
    \/ SelectPrParsed
    \/ SelectPrFailed
    \/ clearSelection
    \/ SplitRunAnalysisStart
    \/ SplitRunAnalysisSplit
    \/ SplitRunAnalysisSplitFailed
    \/ SplitRunAnalysisResolved
    \/ SplitRunAnalysisFailed
    \/ SplitResetAnalysis
    \/ DismissError

SpecSplit == Init /\ [][NextSplit]_vars

\* ------------------------------ the backend commands: validation of the answer
\* analyze_intents_with_codex and refine_group between the decoding of the
\* engine's answer and their return: the coverage-and-uniqueness check and the
\* enumeration check of category and risk, then the result or ValidationError.
\* A command is a record of `inflight` holding the decoded answer; hunks is the
\* command's hunk list; last holds the command, its verdict and what the
\* caller received.

\* The input hunks are H1..Hk, k <= MaxIds; H<MaxIds + 1> is in no input.
MaxIds == 3

GroupCategories ==
    {"schema", "logic", "api", "ui", "test", "config", "docs", "refactor", "other"}

RiskLevels == {"low", "medium", "high"}

\* (category, risk) as the engine may write them for its first group: both in
\* their enumeration, risk outside, category outside.
EngineTags == { <<"logic", "low">>, <<"logic", "critical">>, <<"misc", "high">> }

EngineGroup(gid, ids, tag) ==
    [id |-> gid, hunkIds |-> ids, category |-> tag[1], risk |-> tag[2]]

\* Where the engine puts each of H1..H<MaxIds + 1>: any set of places.
Placements(places) == [1..(MaxIds + 1) -> SUBSET places]

\* The ids put at place, from Hn on, in order.
RECURSIVE IdsAt(_, _, _)
IdsAt(p, place, n) ==
    IF n > MaxIds + 1 THEN <<>>
    ELSE (IF place \in p[n] THEN << <<n>> >> ELSE <<>>) \o IdsAt(p, place, n + 1)

\* The groups of an answer: G1 tagged as the engine chose, G2 tagged
\* ("test", "medium"); a group without hunks is not written.
EngineGroups(p, tag, parent) ==
    (IF IdsAt(p, "G1", 1) # <<>>
     THEN << EngineGroup(parent \o <<1>>, IdsAt(p, "G1", 1), tag) >> ELSE <<>>)
    \o (IF IdsAt(p, "G2", 1) # <<>>
        THEN << EngineGroup(parent \o <<2>>, IdsAt(p, "G2", 1), <<"test", "medium">>) >>
        ELSE <<>>)

\* A decoded answer of the engine to an analysis.
EngineAnalysis(p, tag) ==
    [ version |-> 1,
      overallSummary |-> 0,
      groups |-> EngineGroups(p, tag, <<>>),
      unassignedHunkIds |-> IdsAt(p, "unassigned", 1),
      nonSubstantiveHunkIds |-> <<>>,
      questions |-> <<>> ]

\* The groups whose hunkIds are sub-lists of the hunk ids of hs.
TargetGroups(hs) ==
    { Group(<<1>>, SelectIds(HunkIdsOf(hs), t)) :
        t \in (SUBSET Range(HunkIdsOf(hs))) \ {{}} }

\* A command with the decoded answer of the engine, about to be validated.
AnalyzeCommand(p, tag) ==
    [op |-> "analyze_intents_with_codex", output |-> EngineAnalysis(p, tag)]

RefineCommand(g, p, tag) ==
    [op |-> "refine_group", target |-> g, output |-> EngineGroups(p, tag, g.id)]

InitBackend ==
    /\ repo = <<"r", " ">>
    /\ selectedPr = NoPr
    /\ \E k \in 1..MaxIds : hunks = [i \in 1..k |-> Hunk(i, 0, 5)]
    /\ prs = <<>>
    /\ analysis = NoAnalysis
    /\ codexLog = <<>>
    /\ fromCache = FALSE
    /\ error = Null
    /\ loading = Null
    /\ requestIdRef = [s \in Streams |-> 0]
    /\ \E tag \in EngineTags :
          \/ \E p \in Placements({"G1", "G2", "unassigned"}) :
                inflight = { AnalyzeCommand(p, tag) }
          \/ \E g \in TargetGroups(hunks), p \in Placements({"G1", "G2"}) :
                inflight = { RefineCommand(g, p, tag) }
    /\ otherCalls = 0
    /\ applied = [s \in Streams |-> 0]
    /\ last = Step("init", "none", 0, "none", FALSE)
    /\ InitCache
    /\ InitView
    /\ InitAuto

\* All hunk ids the groups name, in order.
RECURSIVE HunkIdsOfGroups(_)
HunkIdsOfGroups(groups) ==
    IF groups = <<>> THEN <<>>
    ELSE Head(groups).hunkIds \o HunkIdsOfGroups(Tail(groups))

\* A scan that takes the set of the named ids and so misses a second mention.
RECURSIVE CoverageScanOfSet(_, _, _)
CoverageScanOfSet(named, ids, seen) ==
    IF named = <<>> THEN (IF seen = ids THEN "ok" ELSE "missing")
    ELSE IF Head(named) \notin ids THEN "foreign"
    ELSE CoverageScanOfSet(Tail(named), ids, seen \cup {Head(named)})

\* Coverage-and-uniqueness: every named id is an input id not named before,
\* and at the end every input id has been named.
RECURSIVE CoverageScan(_, _, _)
CoverageScan(named, ids, seen) ==
    IF named = <<>> THEN (IF seen = ids THEN "ok" ELSE "missing")
    ELSE IF Head(named) \notin ids THEN "foreign"
    ELSE IF Head(named) \in seen THEN "duplicate"
    ELSE CoverageScan(Tail(named), ids, seen \cup {Head(named)})

\* Every category and risk value is of its enumeration.
EnumsValid(groups) ==
    \A i \in 1..Len(groups) :
        groups[i].category \in GroupCategories /\ groups[i].risk \in RiskLevels

ValidateAnalysis(a, hs) ==
    IF /\ CoverageScan(HunkIdsOfGroups(a.groups) \o a.unassignedHunkIds,
                       Range(HunkIdsOf(hs)), {}) = "ok"
       /\ EnumsValid(a.groups)
    THEN "ok" ELSE "ValidationError"

\* A refine validation that lets an answer pass which leaves target ids out.
ValidateRefineLax(subGroups, target) ==
    IF /\ CoverageScan(HunkIdsOfGroups(subGroups), Range(target.hunkIds), {})
              \in {"ok", "missing"}
       /\ EnumsValid(subGroups)
    THEN "ok" ELSE "ValidationError"

\* The invariant scoped to the target group; there is no unassigned here.
ValidateRefine(subGroups, target) ==
    IF /\ CoverageScan(HunkIdsOfGroups(subGroups), Range(target.hunkIds), {}) = "ok"
       /\ EnumsValid(subGroups)
    THEN "ok" ELSE "ValidationError"

\* What a command hands to its caller: the answer when valid, else nothing.
Returned(verdict, output) == IF verdict = "ok" THEN << output >> ELSE <<>>

\* analyze_intents_with_codex from the decoded answer to its return.
AnalyzeIntentsCommand ==
    \E c \in inflight :
        /\ c.op = "analyze_intents_with_codex"
        /\ inflight' = inflight \ {c}
        /\ LET verdict == ValidateAnalysis(c.output, hunks)
           IN last' = [op |-> c.op, output |-> c.output, outcome |-> verdict,
                       received |-> Returned(verdict, c.output)]
        /\ UNCHANGED <<cacheVars, viewVars, autoVars, uiVars, requestIdRef, otherCalls, applied>>

\* refine_group from the decoded answer to its return.
RefineGroupCommand ==
    \E c \in inflight :
        /\ c.op = "refine_group"
        /\ inflight' = inflight \ {c}
        /\ LET verdict == ValidateRefine(c.output, c.target)
           IN last' = [op |-> c.op, target |-> c.target, output |-> c.output,
                       outcome |-> verdict,
                       received |-> Returned(verdict, c.output)]
        /\ UNCHANGED <<cacheVars, viewVars, autoVars, uiVars, requestIdRef, otherCalls, applied>>

NextBackend ==
    \/ AnalyzeIntentsCommand
    \/ RefineGroupCommand

SpecBackend == InitBackend /\ [][NextBackend]_vars

\* ----------------------------------------------------------------- claims
\* The handlers that take an epoch, and the stream each belongs to.
EpochHandlers == {"selectPr", "fetchPrs", "runAnalysis"}
ResetHandlers == {"clearSelection", "resetAnalysis"}

\* The state of a stream is the result of the operation holding its epoch.
ShowsResultOf(stream, epoch) ==
    CASE stream = "analysis" ->
           /\ analysis # NoAnalysis
           /\ analysis.overallSummary.epoch = epoch
           /\ codexLog # <<>> /\ Head(codexLog) = epoch
      [] stream = "diff" ->
           /\ selectedPr # NoPr
           /\ hunks = ParseDiff(DiffText(selectedPr))
      [] stream = "prs" ->
           \A i \in 1..Len(prs) : prs[i].epoch = epoch

\* C1: last request wins on every stream.  A successful response of
\* runAnalysis, selectPr or fetchPrs is applied only while its epoch is the
\* stream's counter, so after no later start or reset; the epochs of the
\* applied results strictly increase; and when the operation started last has
\* had its result applied, the stream's state is that result.
LastRequestWins ==
    /\ [][ (last'.op \in EpochHandlers /\ last'.outcome = "applied") =>
             /\ ~last'.superseded
             /\ last'.id = requestIdRef[last'.stream]
             /\ last'.id > applied[last'.stream]
             /\ applied'[last'.stream] = last'.id
             /\ \E s \in Streams, e \in 1..MaxCalls :
                  s = last'.stream /\ e = last'.id /\ ShowsResultOf(s, e)' ]_vars
    /\ [][ (last'.op \in EpochHandlers /\ last'.superseded) =>
             UNCHANGED <<analysis, codexLog, fromCache, hunks, prs, applied>> ]_vars
    /\ [](\A s \in Streams :
             (requestIdRef[s] > 0 /\ applied[s] = requestIdRef[s]) =>
                 ShowsResultOf(s, requestIdRef[s]))

\* C1 witness: operation A then B started on one stream, B's result was
\* applied, and A's response has just arrived and been dropped.
LateResponseDropped ==
    /\ last.op \in EpochHandlers
    /\ last.outcome = "dropped"
    /\ last.id < applied[last.stream]
    /\ applied[last.stream] = requestIdRef[last.stream]
    /\ ShowsResultOf(last.stream, requestIdRef[last.stream])

\* The operations in flight that hold an epoch of the stream.
EpochHolders(stream) ==
    { c \in inflight :
        \/ stream = "diff" /\ c.op = "selectPr"
        \/ stream = "prs" /\ c.op = "fetchPrs"
        \/ stream = "analysis" /\ c.op = "runAnalysis" }

\* C2: a stream's counter never decreases; a start of runAnalysis, selectPr or
\* fetchPrs and a resetAnalysis or clearSelection add exactly one to the
\* counter of their stream and nothing else changes it; the epoch an operation
\* holds is the counter's value right after its increment; no two operations
\* of a stream hold the same epoch.
EpochCounterMonotone ==
    /\ [][ \A s \in Streams :
             IF /\ last'.stream = s
                /\ last'.op \in EpochHandlers \cup ResetHandlers
                /\ last'.outcome \in {"start", "early", "reset"}
             THEN /\ requestIdRef'[s] = requestIdRef[s] + 1
                  /\ last'.id = requestIdRef'[s]
                  /\ \A c \in EpochHolders(s)' \ EpochHolders(s) : c.id = requestIdRef'[s]
             ELSE requestIdRef'[s] = requestIdRef[s] ]_vars
    /\ [](\A s \in Streams :
             /\ \A c \in EpochHolders(s) : c.id \in 1..requestIdRef[s]
             /\ \A c, d \in EpochHolders(s) : c.id = d.id => c = d)

\* C2 witness: two operations of one stream in flight with epochs 1 and 2.
TwoEpochsInFlight ==
    \E s \in Streams :
        /\ requestIdRef[s] = 2
        /\ \E c, d \in EpochHolders(s) : c.id = 1 /\ d.id = 2

\* C3: a superseded operation that fails is discarded silently.  When a
\* backend call rejects after a newer operation or a reset has started on the
\* same stream, the failure sets no error message, does not clear hunks, and
\* changes none of analysis, prs and loading.
SupersededFailureSilent ==
    [][ (last'.outcome \in {"failed", "failed_dropped"} /\ last'.superseded) =>
          UNCHANGED <<error, hunks, analysis, prs, loading>> ]_vars

\* All hunk ids an AnalysisResult places: the groups' hunkIds, then
\* unassignedHunkIds.
RECURSIVE GroupedIds(_)
GroupedIds(groups) ==
    IF groups = <<>> THEN <<>> ELSE Head(groups).hunkIds \o GroupedIds(Tail(groups))

PlacedIds(a) == GroupedIds(a.groups) \o a.unassignedHunkIds

Occurrences(x, s) == Cardinality({ i \in 1..Len(s) : s[i] = x })

\* Coverage-and-uniqueness of placed against the hunk ids ids: every id of ids
\* placed exactly once, and nothing else placed.
CoversExactlyOnce(placed, ids) ==
    /\ \A x \in Range(ids) : Occurrences(x, placed) = 1
    /\ Range(placed) \subseteq Range(ids)

\* C4: whenever an analysis is displayed, every hunk id of the hunk set the
\* analysis belongs to is in exactly one place among the groups' hunkIds and
\* unassignedHunkIds, under every interleaving of runAnalysis, refineGroup,
\* resetAnalysis and PR selection, the backend answers each satisfying their
\* own contract.
DisplayedAnalysisCovers ==
    analysis # NoAnalysis =>
        CoversExactlyOnce(PlacedIds(analysis), HunkIdsOf(analysis.overallSummary.input))

\* The hunks are those of the diff of pull request pr: its parse result, or
\* that result with its large hunks split.
HunksOfPr(hs, pr) ==
    hs \in { ParseDiff(DiffText(pr)), SplitLargeHunks(ParseDiff(DiffText(pr))) }

\* C5: the displayed analysis is discarded whenever the displayed hunk set is
\* replaced (another PR, going back, or a split step calling setHunks): a step
\* that changes hunks leaves no analysis displayed; whenever a PR is selected
\* (the panes are rendered) a non-null analysis was derived from the hunk set
\* now displayed; so an analysis requested for an earlier hunk set never
\* becomes the displayed one.
AnalysisOwnedByHunks ==
    /\ [][ hunks' # hunks => analysis' = NoAnalysis ]_vars
    /\ []((selectedPr # NoPr /\ analysis # NoAnalysis) =>
              analysis.overallSummary.input = hunks)

\* The diff fetches in flight that hold the current epoch.
CurrentFetches == { c \in inflight : c.op = "selectPr" /\ c.id = requestIdRef["diff"] }

\* C6: displayed hunks belong to the current PR selection.  Whenever no diff
\* fetch holding the current epoch is in flight, hunks is empty or the hunks of
\* the diff of selectedPr, so hunks of a previously selected PR, from a late
\* fetch or a late split step of an analysis run, never replace them; and
\* while no PR is selected (after clearSelection, until the next selectPr)
\* hunks is empty.
HunksBelongToSelection ==
    /\ selectedPr = NoPr => hunks = <<>>
    /\ (selectedPr # NoPr /\ CurrentFetches = {}) =>
          (hunks = <<>> \/ HunksOfPr(hunks, selectedPr))

\* An id list obtained from one that places every id of ids once by removing
\* an id, by placing an id a second time, or by adding an id not in ids.
MutationOfValid(placed, ids) ==
    \/ /\ Range(placed) \subseteq ids
       /\ \E x \in ids : /\ Occurrences(x, placed) = 0
                         /\ \A y \in ids \ {x} : Occurrences(y, placed) = 1
    \/ /\ Range(placed) \subseteq ids
       /\ \E x \in ids : /\ Occurrences(x, placed) = 2
                         /\ \A y \in ids \ {x} : Occurrences(y, placed) = 1
    \/ /\ \A y \in ids : Occurrences(y, placed) = 1
       /\ \E z \in Range(placed) \ ids :
             Occurrences(z, placed) = 1 /\ Range(placed) \ ids = {z}

AnalysisValidated == last.op = "analyze_intents_with_codex"

InputIds == Range(HunkIdsOf(hunks))

\* The validator rejects every mutation of a valid answer with
\* ValidationError, and a rejected answer reaches the caller in no form.
RejectsMutations(placed, ids) ==
    /\ MutationOfValid(placed, ids) => last.outcome = "ValidationError"
    /\ last.outcome \in {"ok", "ValidationError"}
    /\ last.outcome = "ValidationError" => last.received = <<>>
    /\ last.outcome = "ok" => last.received = << last.output >>

\* C8 as stated: the analysis validator accepts a decoded engine output if and
\* only if the groups' hunkIds and unassignedHunkIds together hold every input
\* hunk id exactly once and nothing else; every removal, duplication or
\* foreign addition is rejected with ValidationError and nothing is returned.
ValidatorAcceptsIffCovers ==
    AnalysisValidated =>
        /\ last.outcome = "ok" <=> CoversExactlyOnce(PlacedIds(last.output), HunkIdsOf(hunks))
        /\ RejectsMutations(PlacedIds(last.output), InputIds)

\* C8 amended: the validator accepts a decoded engine output if and only if the
\* coverage-and-uniqueness invariant holds and every group's category and risk
\* are values of their enumerations; every removal, duplication or foreign
\* addition is rejected with ValidationError and nothing is returned.
ValidatorAcceptsIffCoversAndEnums ==
    AnalysisValidated =>
        /\ last.outcome = "ok" <=>
              /\ CoversExactlyOnce(PlacedIds(last.output), HunkIdsOf(hunks))
              /\ \A i \in 1..Len(last.output.groups) :
                    /\ last.output.groups[i].category \in GroupCategories
                    /\ last.output.groups[i].risk \in RiskLevels
        /\ RejectsMutations(PlacedIds(last.output), InputIds)

\* C8 witness: an answer naming H2 in both groups, every other input id once
\* and valid enumeration values, has been rejected and nothing returned.
DuplicateAcrossGroupsRejected ==
    /\ AnalysisValidated
    /\ Len(hunks) = 3
    /\ Len(last.output.groups) = 2
    /\ last.output.groups[1].hunkIds = << <<1>>, <<2>> >>
    /\ last.output.groups[2].hunkIds = << <<2>> >>
    /\ last.output.unassignedHunkIds = << <<3>> >>
    /\ last.output.groups[1].risk = "low"
    /\ last.outcome = "ValidationError"
    /\ last.received = <<>>

RefineValidated == last.op = "refine_group"

\* The hunkIds of the sub-groups, one list per sub-group.
SubGroupIds(subGroups) == [i \in 1..Len(subGroups) |-> subGroups[i].hunkIds]

H123 == << <<1>>, <<2>>, <<3>> >>

\* The three answers of the refine scenario for target {H1,H2,H3}.
RefineScenario ==
    last.target.hunkIds = H123 =>
        /\ SubGroupIds(last.output) = << << <<1>> >>, << <<2>>, <<3>> >> >>
              => last.outcome = "ok"
        /\ SubGroupIds(last.output) = << << <<1>> >>, << <<1>>, <<3>> >> >>
              => last.outcome = "ValidationError"
        /\ SubGroupIds(last.output) = << << <<1>> >> >>
              => last.outcome = "ValidationError"

\* C9 as stated: refine accepts the returned sub-groups if and only if their
\* hunkIds partition targetGroup.hunkIds; for target {H1,H2,H3}, {H1} and
\* {H2,H3} are accepted, {H1} and {H1,H3} rejected, {H1} alone rejected.
RefineAcceptsIffPartition ==
    RefineValidated =>
        /\ last.outcome = "ok" <=>
              CoversExactlyOnce(GroupedIds(last.output), last.target.hunkIds)
        /\ RefineScenario

\* C9 amended: refine accepts the returned sub-groups if and only if their
\* hunkIds partition targetGroup.hunkIds and every sub-group's category and
\* risk are values of their enumerations; with such values, for target
\* {H1,H2,H3}, {H1} and {H2,H3} are accepted, {H1} and {H1,H3} rejected, {H1}
\* alone rejected.
RefineAcceptsIffPartitionAndEnums ==
    RefineValidated =>
        /\ last.outcome = "ok" <=>
              /\ CoversExactlyOnce(GroupedIds(last.output), last.target.hunkIds)
              /\ \A i \in 1..Len(last.output) :
                    /\ last.output[i].category \in GroupCategories
                    /\ last.output[i].risk \in RiskLevels
        /\ (\A i \in 1..Len(last.output) : last.output[i].risk \in RiskLevels
                                            /\ last.output[i].category \in GroupCategories)
              => RefineScenario
        /\ last.outcome = "ValidationError" => last.received = <<>>

\* C9 witness: for target {H1,H2,H3} the sub-groups {H1} and {H2,H3} have been
\* accepted and returned.
RefineExampleAccepted ==
    /\ RefineValidated
    /\ last.target.hunkIds = H123
    /\ SubGroupIds(last.output) = << << <<1>> >>, << <<2>>, <<3>> >> >>
    /\ last.outcome = "ok"
    /\ last.received = << last.output >>

\* The position of the group with id gid in groups (0: none).
PositionOf(groups, gid) ==
    IF \E i \in 1..Len(groups) : groups[i].id = gid
    THEN CHOOSE i \in 1..Len(groups) : groups[i].id = gid
    ELSE 0

\* The analysis a with the group at position i replaced by subGroups, every
\* field but groups as in a.
WithSubGroupsAt(a, i, subGroups) ==
    [ version |-> a.version,
      overallSummary |-> a.overallSummary,
      groups |-> SubSeq(a.groups, 1, i - 1) \o subGroups
                 \o SubSeq(a.groups, i + 1, Len(a.groups)),
      unassignedHunkIds |-> a.unassignedHunkIds,
      nonSubstantiveHunkIds |-> a.nonSubstantiveHunkIds,
      questions |-> a.questions ]

\* C7: when the answer of a refine of group G is applied to an analysis whose
\* groups contain G, the analysis afterwards is the one before with G removed
\* and the returned sub-groups, in returned order, at G's position: the other
\* groups keep content and order, and unassignedHunkIds,
\* nonSubstantiveHunkIds, overallSummary, questions and version are unchanged.
RefineSplicesInPlace ==
    [][ \A c \in inflight \ inflight' :
          ( /\ c.op = "refineGroup"
            /\ last'.op = "refineGroup" /\ last'.outcome = "applied"
            /\ analysis # NoAnalysis
            /\ PositionOf(analysis.groups, c.group.id) # 0 ) =>
              \E subGroups \in RefineResults(c.group) :
                  analysis' = WithSubGroupsAt(analysis,
                                  PositionOf(analysis.groups, c.group.id), subGroups)
      ]_vars

\* C7 witness: the second of two groups has just been refined; the first group
\* stands where it stood and the sub-group follows it.
RefinedSecondGroup ==
    /\ last.op = "refineGroup" /\ last.outcome = "applied"
    /\ analysis # NoAnalysis
    /\ Len(analysis.groups) = 2
    /\ analysis.groups[1].id = <<1>>
    /\ analysis.groups[2].id = <<2, 1>>

\* The steps in which a runAnalysis or refineGroup call starts or fails.
AnalysisCallStarts ==
    last'.op \in {"runAnalysis", "refineGroup"} /\ last'.outcome \in {"start", "early"}

AnalysisCallFails ==
    last'.op \in {"runAnalysis", "refineGroup"}
        /\ last'.outcome \in {"failed", "failed_dropped"}

\* C10 as stated: every failure of runAnalysis or refineGroup sets the error
\* message and leaves hunks, selectedPr and the displayed analysis as they
\* were.
AnalysisFailureSetsError ==
    [][ AnalysisCallFails =>
          /\ error' \in AnalysisErrors
          /\ UNCHANGED <<hunks, selectedPr, analysis>> ]_vars

\* C10 amended: a failure of refineGroup, or of a runAnalysis that still holds
\* the current epoch, sets the error message; a failure of a superseded
\* runAnalysis sets none; in every case the failure, like the start of the
\* call, leaves hunks, selectedPr and the displayed analysis as they were, so
\* nothing of a rejected answer is stored.
AnalysisFailureKeepsState ==
    /\ [][ AnalysisCallFails =>
             /\ UNCHANGED <<hunks, selectedPr, analysis>>
             /\ IF last'.op = "runAnalysis" /\ last'.superseded
                THEN UNCHANGED error
                ELSE error' \in AnalysisErrors ]_vars
    /\ [][ AnalysisCallStarts => UNCHANGED <<hunks, selectedPr, analysis>> ]_vars

\* C10 witness: a runAnalysis holding the current epoch has just failed while
\* an earlier analysis is displayed.
FailedRerunKeepsAnalysis ==
    /\ last.op = "runAnalysis" /\ last.outcome = "failed"
    /\ error \in AnalysisErrors
    /\ analysis # NoAnalysis
    /\ hunks # <<>>
    /\ selectedPr # NoPr

\* ------------------------------------------------------------ C18, C20
NoHunksMessage == "No hunks to analyze. Select a PR first."

\* The steps in which runAnalysis is called.
RunAnalysisCalled ==
    last'.op = "runAnalysis" /\ last'.outcome \in {"start", "early"}

\* C18: a runAnalysis called on an empty hunk list sets the "No hunks to
\* analyze. Select a PR first." error, awaits no engine call, leaves the
\* loading message as it was and leaves the displayed analysis unchanged.
EmptyRunAnalysisReturnsEarly ==
    [][ RunAnalysisCalled /\ Len(hunks) = 0 =>
          /\ error' = NoHunksMessage
          /\ inflight' = inflight
          /\ loading' = loading
          /\ analysis' = analysis ]_vars

\* C18 witness: runAnalysis has just returned early on an empty hunk list
\* while an analysis is displayed.
EmptyRunWithAnalysisDisplayed ==
    /\ last.op = "runAnalysis" /\ last.outcome = "early"
    /\ hunks = <<>>
    /\ error = NoHunksMessage
    /\ analysis # NoAnalysis

\* The steps in which a selectPr call that holds the current epoch of the
\* diff stream ends in its catch block.
CurrentDiffFetchFails ==
    /\ last'.op = "selectPr"
    /\ last'.outcome \in {"failed", "failed_dropped"}
    /\ last'.id = requestIdRef["diff"]

\* C20: when the diff fetch of the current epoch fails, in get_pr_diff or in
\* parse_diff, the error message is set, hunks becomes the empty list and the
\* loading message is cleared.
CurrentDiffFailureEmptiesHunks ==
    [][ CurrentDiffFetchFails =>
          /\ error' \in DiffErrors \cup ParseErrors
          /\ hunks' = <<>>
          /\ loading' = Null ]_vars

\* C20 witness: parse_diff has just failed for the selection made right after
\* the one whose hunks were displayed; no hunk is left.
ParseFailureAfterDisplayedHunks ==
    /\ last.op = "selectPr" /\ last.outcome = "failed"
    /\ error \in ParseErrors
    /\ applied["diff"] > 0
    /\ last.id = applied["diff"] + 1
    /\ hunks = <<>>
    /\ loading = Null

\* ------------------------------------------------------ useAutoRunAnalysis
\* The review screen: usePrDiff, useAnalysis and useSettings composed with
\* the auto-run effect and driven by the buttons of the components.  The
\* screens follow App.tsx: the PR list shows while no PR is selected, the
\* groups pane while one is.  The settings modal is forced while no settings
\* are saved, so nothing else can be clicked then.

\* An effect that ignores triggered.current.
AutoRunUnlatched ==
    /\ Len(hunks) > 0
    /\ analysis = NoAnalysis
    /\ loading = Null
    /\ hasSettings

\* The condition of the effect.
AutoRunEnabled ==
    /\ Len(hunks) > 0
    /\ analysis = NoAnalysis
    /\ loading = Null
    /\ hasSettings
    /\ ~triggered

InitAutoRun ==
    /\ InitHooks
    /\ triggered = FALSE
    /\ hasSettings \in BOOLEAN

\* An effect that calls runAnalysis() without setting triggered.current.
AutoRunEffectUnlatched ==
    /\ AutoRunEnabled
    /\ RunAnalysisCall(FALSE)
    /\ UNCHANGED autoVars

\* The effect fires: triggered.current = true; runAnalysis().
AutoRunEffect ==
    /\ AutoRunEnabled
    /\ triggered' = TRUE
    /\ RunAnalysisCall(FALSE)
    /\ UNCHANGED hasSettings

\* A PR of the list is clicked: resetAutoRun(), resetAnalysis(), selectPr(pr).
PrClicked ==
    /\ CanStart
    /\ hasSettings
    /\ selectedPr = NoPr
    /\ \E pr \in PrNumbers :
        LET id == NextRequestId("diff")
        IN /\ requestIdRef' = [requestIdRef EXCEPT !["diff"] = id,
                                                   !["analysis"] = @ + 1]
           /\ selectedPr' = pr
           /\ inflight' = inflight \cup
                 { [op |-> "selectPr", id |-> id, pr |-> pr,
                    await |-> "get_pr_diff", diff |-> 0] }
           /\ last' = Step("selectPr", "diff", id, "start", FALSE)
    /\ triggered' = FALSE
    /\ analysis' = NoAnalysis
    /\ codexLog' = <<>>
    /\ fromCache' = FALSE
    /\ error' = Null
    /\ loading' = "Fetching diff..."
    /\ UNCHANGED <<cacheVars, viewVars, hasSettings, repo, hunks, prs, otherCalls, applied>>

\* Back to the list: clearSelection(), resetAnalysis().
BackClicked ==
    /\ CanStart
    /\ hasSettings
    /\ selectedPr # NoPr
    /\ requestIdRef' = [requestIdRef EXCEPT !["diff"] = @ + 1, !["analysis"] = @ + 1]
    /\ selectedPr' = NoPr
    /\ hunks' = <<>>
    /\ analysis' = NoAnalysis
    /\ codexLog' = <<>>
    /\ fromCache' = FALSE
    /\ last' = Step("clearSelection", "diff", requestIdRef["diff"] + 1, "reset", FALSE)
    /\ UNCHANGED <<cacheVars, viewVars, autoVars, repo, prs, error, loading, inflight,
                   otherCalls, applied>>

\* The Run / Re-run button of the groups pane: onRunAnalysis(!!analysis),
\* disabled while loading or without hunks.
RunClicked ==
    /\ hasSettings
    /\ selectedPr # NoPr
    /\ loading = Null
    /\ Len(hunks) # 0
    /\ RunAnalysisCall(analysis # NoAnalysis)
    /\ UNCHANGED autoVars

\* The Refine button of a group, disabled while loading.
RefineClicked ==
    /\ hasSettings
    /\ selectedPr # NoPr
    /\ loading = Null
    /\ RefineGroupStart

\* The settings modal's Save.
saveSettings ==
    /\ ~hasSettings
    /\ hasSettings' = TRUE
    /\ last' = Step("saveSettings", "none", 0, "none", FALSE)
    /\ UNCHANGED <<uiVars, requestIdRef, inflight, otherCalls, applied, cacheVars, viewVars,
                   triggered>>

\* React runs the effect of a render before it handles the next event, a
\* click or the end of an await.
NextAuto ==
    \/ AutoRunEffect
    \/ ~AutoRunEnabled /\ PrClicked
    \/ ~AutoRunEnabled /\ BackClicked
    \/ ~AutoRunEnabled /\ RunClicked
    \/ ~AutoRunEnabled /\ RefineClicked
    \/ ~AutoRunEnabled /\ saveSettings
    \/ ~AutoRunEnabled /\ DismissError
    \/ ~AutoRunEnabled /\ SelectPrDiffFetched
    \/ ~AutoRunEnabled /\ SelectPrParsed
    \/ ~AutoRunEnabled /\ SelectPrFailed
    \/ ~AutoRunEnabled /\ RunAnalysisResolved
    \/ ~AutoRunEnabled /\ RunAnalysisFailed
    \/ ~AutoRunEnabled /\ RefineGroupResolved
    \/ ~AutoRunEnabled /\ RefineGroupFailed

SpecAuto == InitAutoRun /\ [][NextAuto]_vars

\* ----------------------------------------------------------------- C19
\* The engine calls awaited: analyzeIntents and refineGroupApi.
EngineCalls == { c \in inflight : c.op \in {"runAnalysis", "refineGroup"} }

MaxLines == 6

DiffLineKinds == {"add", "remove", "context"}
FirstChar(kind) ==
    CASE kind = "add" -> "+" [] kind = "remove" -> "-" [] kind = "context" -> " "
Line(c, path, old, new) == [c |-> c, path |-> path, old |-> old, new |-> new]

\* The shape of a diff as git writes it: a "diff --git" marker per file, the
\* file's header lines, then its hunks, each an @@ header and its body.
DiffShapes ==
    { sh \in UNION { [1..n -> {"git", "meta", "@@"} \cup DiffLineKinds] :
                       n \in 1..MaxLines } :
        /\ sh[1] = "git"
        /\ \A i \in 2..Len(sh) :
              /\ sh[i] = "meta" => sh[i - 1] \in {"git", "meta"}
              /\ sh[i] \in DiffLineKinds => sh[i - 1] \in DiffLineKinds \cup {"@@"}
        /\ \A i \in 1..Len(sh) :
              sh[i] = "@@" => i < Len(sh) /\ sh[i + 1] \in DiffLineKinds }

\* The body of the hunk whose header is line i: the lines up to the next
\* header, file marker or end.
RECURSIVE BodyAfter(_, _)
BodyAfter(sh, i) ==
    IF i + 1 > Len(sh) \/ sh[i + 1] \notin DiffLineKinds
    THEN <<>>
    ELSE <<sh[i + 1]>> \o BodyAfter(sh, i + 1)

CountKinds(kinds, wanted) ==
    Cardinality({ j \in 1..Len(kinds) : kinds[j] \in wanted })

\* "-a,b" or "+c,d" as diff writes it: a count of 1 may be left out.
RangeText(start, count, omitOne) ==
    IF count = 1 /\ omitOne THEN <<start>> ELSE <<start, count>>

\* The text of a valid unified diff of the given shape.  Files are numbered
\* in order; a hunk starts at the line number of its header in the text.
DiffTextOf(sh, omitOne) ==
    [ i \in 1..Len(sh) |->
        LET file == Cardinality({ j \in 1..i : sh[j] = "git" })
            body == BodyAfter(sh, i)
        IN CASE sh[i] = "git" -> Line("diff --git", file, <<>>, <<>>)
             [] sh[i] = "meta" -> Line("meta", 0, <<>>, <<>>)
             [] sh[i] = "@@" ->
                  Line("@@", 0,
                       RangeText(i, CountKinds(body, {"context", "remove"}), omitOne),
                       RangeText(i, CountKinds(body, {"context", "add"}), omitOne))
             [] OTHER -> Line(FirstChar(sh[i]), 0, <<>>, <<>>) ]

\* A header decoder that reads a missing count as 0.
RangeCountOrZero(range) == IF Len(range) = 2 THEN range[2] ELSE 0

\* The count of "-a[,b]" / "+c[,d]": 1 when left out.
RangeCount(range) == IF Len(range) = 2 THEN range[2] ELSE 1

\* An id drawn from the file counter.
HunkIdOfFile(out, path) == <<path>>

\* H1, H2, ...: the next id in the sequence.
NextHunkId(out, path) == <<Len(out) + 1>>

\* The scan from line i on: path is the current file, out the hunks so far;
\* open tells whether the last of them is still the current hunk.
RECURSIVE ParseFrom(_, _, _, _, _)
ParseFrom(text, i, path, open, out) ==
    IF i > Len(text) THEN [ok |-> TRUE, hunks |-> out]
    ELSE LET line == text[i]
         IN CASE line.c = "diff --git" ->
                   ParseFrom(text, i + 1, line.path, FALSE, out)
              [] line.c = "@@" ->
                   ParseFrom(text, i + 1, path, TRUE,
                       Append(out, [id |-> NextHunkId(out, path),
                                    filePath |-> path,
                                    header |-> [old |-> line.old, new |-> line.new],
                                    oldStart |-> line.old[1],
                                    oldLines |-> RangeCount(line.old),
                                    newStart |-> line.new[1],
                                    newLines |-> RangeCount(line.new),
                                    lines |-> <<>>]))
              [] line.c \in {"+", "-", " "} ->
                   IF open
                   THEN ParseFrom(text, i + 1, path, TRUE,
                            [out EXCEPT ![Len(out)].lines =
                                Append(@, CASE line.c = "+" -> "add"
                                            [] line.c = "-" -> "remove"
                                            [] line.c = " " -> "context")])
                   ELSE ParseFrom(text, i + 1, path, FALSE, out)
              [] OTHER ->
                   IF open
                   THEN [ok |-> FALSE, hunks |-> <<>>]
                   ELSE ParseFrom(text, i + 1, path, FALSE, out)

\* parse(diffText) -> Hunk[] | ParseError
Parse(text) == ParseFrom(text, 1, 0, FALSE, <<>>)

\* The diff text of a valid diff handed to parse_diff twice.
InitParser ==
    /\ repo = <<"r", " ">>
    /\ selectedPr = NoPr
    /\ hunks = <<>>
    /\ prs = <<>>
    /\ analysis = NoAnalysis
    /\ codexLog = <<>>
    /\ fromCache = FALSE
    /\ error = Null
    /\ loading = Null
    /\ requestIdRef = [s \in Streams |-> 0]
    /\ otherCalls = 0
    /\ applied = [s \in Streams |-> 0]
    /\ last = Step("init", "none", 0, "none", FALSE)
    /\ InitCache
    /\ InitView
    /\ InitAuto
    /\ \E sh \in DiffShapes, omitOne \in BOOLEAN :
          inflight = { [op |-> "parse_diff", diffText |-> DiffTextOf(sh, omitOne),
                        call |-> n] : n \in 1..2 }

\* parse_diff runs; before it holds the result of the call made before.
ParseDiffCommand ==
    \E c \in inflight :
        /\ c.op = "parse_diff"
        /\ inflight' = inflight \ {c}
        /\ last' = [op |-> "parse_diff", diffText |-> c.diffText,
                    result |-> Parse(c.diffText),
                    before |-> IF last.op = "parse_diff" THEN <<last.result>> ELSE <<>>]
        /\ UNCHANGED <<uiVars, requestIdRef, otherCalls, applied, cacheVars, viewVars, autoVars>>

NextParser == ParseDiffCommand

SpecParser == InitParser /\ [][NextParser]_vars

\* ------------------------------------------------------------ C16, C17
\* The hunks of the parse just made.
ParsedHunks == IF last.op = "parse_diff" THEN last.result.hunks ELSE <<>>

\* C16: every hunk parsed from a valid unified diff has as many context and
\* remove lines as its header's old count and as many context and add lines
\* as its new count, a count left out of the header being 1; a valid diff is
\* not rejected.
HunkCountsMatchHeader ==
    /\ last.op = "parse_diff" => last.result.ok
    /\ \A i \in 1..Len(ParsedHunks) :
          LET h == ParsedHunks[i]
          IN /\ CountKinds(h.lines, {"context", "remove"}) = h.oldLines
             /\ CountKinds(h.lines, {"context", "add"}) = h.newLines
             /\ Len(h.header.old) = 1 => h.oldLines = 1
             /\ Len(h.header.new) = 1 => h.newLines = 1

\* C16 witness: a parsed hunk of a context line and an added line whose header
\* leaves the old count out.
HunkWithOmittedCount ==
    \E i \in 1..Len(ParsedHunks) :
        /\ Len(ParsedHunks[i].header.old) = 1
        /\ Len(ParsedHunks[i].header.new) = 2
        /\ ParsedHunks[i].lines = <<"context", "add">>

\* The lines of a text that are @@ headers, and the file a line belongs to.
HeaderLines(text) == { i \in 1..Len(text) : text[i].c = "@@" }
FileOfLine(text, i) == Cardinality({ j \in 1..i : text[j].c = "diff --git" })

MaxCommands == 3

CacheCommands == {"get_pr_diff", "analyze", "refine"}
NamespaceOf(cmd) ==
    CASE cmd = "get_pr_diff" -> "diff" [] cmd = "analyze" -> "analysis"
      [] cmd = "refine" -> "refine"
Chunk(ns, key, id) == [ns |-> ns, key |-> key, by |-> id]
Payload(ns, key, id) == << Chunk(ns, key, id), Chunk(ns, key, id) >>
ErrorsOf(cmd) == IF cmd = "get_pr_diff" THEN DiffErrors ELSE AnalysisErrors

\* sizeBytes(): the payload sizes summed over the three namespaces.
RECURSIVE SumLen(_, _)
SumLen(st, entries) ==
    IF entries = {} THEN 0
    ELSE LET e == CHOOSE x \in entries : TRUE
         IN Len(st[e]) + SumLen(st, entries \ {e})
SizeBytes(st) == SumLen(st, DOMAIN st)

\* The size as get_cache_size formats it; "0 B" is FormatSize(0).
FormatSize(bytes) == <<bytes, "B">>

\* A lookup that never finds an entry.
CacheLookupNever(st, force, ns, key, readOk) == NoEntry

\* A lookup that reads the cache under forceBypass too.
CacheLookupAlways(st, force, ns, key, readOk) ==
    IF readOk THEN st[<<ns, key>>] ELSE NoEntry

\* The cache read of a command: none under forceBypass; a failed read is a
\* miss.
CacheLookup(st, force, ns, key, readOk) ==
    IF force \/ ~readOk THEN NoEntry ELSE st[<<ns, key>>]

\* A put that writes the entry file itself.
WriteInPlace(st, ns, key, chunk) == [st EXCEPT ![<<ns, key>>] = <<chunk>>]

\* put writes a temporary file: the entry file is untouched until the rename.
WriteTemp(st, ns, key, chunk) == st

\* clear(): every namespace emptied at once.
Cleared(st) == [e \in DOMAIN st |-> NoEntry]

\* A cache error handed on to the caller.
Propagate(outcome) == "CacheIOError"

\* A cache error is logged and swallowed: the command's outcome stands.
Swallow(outcome) == outcome

\* A hook that shows "0 B" whatever clear_cache answered.
SizeZeroed(ok, size) == FormatSize(0)

\* setCacheSize("0 B") after the await of clear_cache; the catch sets nothing.
SizeAfterClear(ok, size) == IF ok THEN FormatSize(0) ELSE size

\* What a step of a command leaves in last.  io: what the step did with the
\* cache.  invoked: whether the call has invoked the engine (or gh).
CacheStep(c, outcome, payload, served, invoked, io) ==
    [op |-> c.op, id |-> c.id, key |-> c.key, force |-> c.force,
     outcome |-> outcome, payload |-> payload, servedFromCache |-> served,
     invoked |-> invoked, io |-> io]

cacheFrame == <<uiVars, requestIdRef, applied, autoVars, viewVars>>

\* A command is called: the key, the cache read unless forced, then the hit
\* returned or the engine invoked.
CommandStart ==
    /\ otherCalls < MaxCommands
    /\ otherCalls' = NextCall
    /\ \E cmd \in CacheCommands, input \in CacheInputs, force, readOk \in BOOLEAN :
        LET c == [op |-> cmd, id |-> NextCall, key |-> CacheKey(input),
                  force |-> force, stage |-> "engine", temp |-> <<>>]
            entry == CacheLookup(store, force, NamespaceOf(cmd), c.key, readOk)
            io == IF force THEN "none" ELSE IF readOk THEN "read" ELSE "read failed"
        IN /\ cmd = "get_pr_diff" => ~force
           /\ cmd # "analyze" => input = <<1>>
           /\ ~readOk => ~force /\ store[<<NamespaceOf(cmd), c.key>>] # NoEntry
           /\ IF entry # NoEntry
              THEN /\ inflight' = inflight
                   /\ last' = CacheStep(c, "ok", entry, TRUE, FALSE, io)
              ELSE /\ inflight' = inflight \cup {c}
                   /\ last' = CacheStep(c, "invoked", <<>>, FALSE, TRUE, io)
    /\ UNCHANGED <<cacheVars, cacheFrame>>

\* The engine failed, or its answer failed decoding or validation: the typed
\* failure is returned and nothing is written.
CommandEngineFailed ==
    \E c \in inflight :
        /\ c.op \in CacheCommands /\ c.stage = "engine"
        /\ inflight' = inflight \ {c}
        /\ \E e \in ErrorsOf(c.op) :
              last' = CacheStep(c, e, <<>>, FALSE, TRUE, "none")
        /\ UNCHANGED <<cacheVars, otherCalls, cacheFrame>>

\* The answer passed validation: put begins with the first chunk.
CommandValidated ==
    \E c \in inflight :
        /\ c.op \in CacheCommands /\ c.stage = "engine"
        /\ LET chunk == Chunk(NamespaceOf(c.op), c.key, c.id)
           IN /\ inflight' = (inflight \ {c}) \cup
                     { [c EXCEPT !.stage = "put", !.temp = <<chunk>>] }
              /\ store' = WriteTemp(store, NamespaceOf(c.op), c.key, chunk)
        /\ last' = CacheStep(c, "validated", <<>>, FALSE, TRUE, "none")
        /\ UNCHANGED <<cacheSize, clearing, otherCalls, cacheFrame>>

\* put ends: the last chunk and the rename; the command returns its result.
CommandPutCommitted ==
    \E c \in inflight :
        /\ c.op \in CacheCommands /\ c.stage = "put" /\ c.temp # <<>>
        /\ inflight' = inflight \ {c}
        /\ LET ns == NamespaceOf(c.op)
               payload == c.temp \o << Chunk(ns, c.key, c.id) >>
           IN /\ store' = [store EXCEPT ![<<ns, c.key>>] = payload]
              /\ last' = CacheStep(c, "ok", payload, FALSE, TRUE,
                            IF store[<<ns, c.key>>] = NoEntry THEN "created"
                                                               ELSE "overwritten")
        /\ UNCHANGED <<cacheSize, clearing, otherCalls, cacheFrame>>

\* put fails (the disk, or the temporary file gone): the error is swallowed
\* and the command returns its result.
CommandPutFailed ==
    \E c \in inflight :
        /\ c.op \in CacheCommands /\ c.stage = "put"
        /\ inflight' = inflight \ {c}
        /\ last' = CacheStep(c, Swallow("ok"), Payload(NamespaceOf(c.op), c.key, c.id),
                      FALSE, TRUE, "write failed")
        /\ UNCHANGED <<cacheVars, otherCalls, cacheFrame>>

\* .then(setCacheSize)
GetCacheSizeResolved ==
    \E c \in inflight :
        /\ c.op = "get_cache_size"
        /\ inflight' = inflight \ {c}
        /\ cacheSize' = FormatSize(SizeBytes(store))
        /\ last' = Step("getCacheSize", "none", c.id, "resolved", FALSE)
        /\ UNCHANGED <<store, clearing, otherCalls, cacheFrame>>

\* .catch(() => {})
GetCacheSizeFailed ==
    \E c \in inflight :
        /\ c.op = "get_cache_size"
        /\ inflight' = inflight \ {c}
        /\ last' = Step("getCacheSize", "none", c.id, "failed", FALSE)
        /\ UNCHANGED <<cacheVars, otherCalls, cacheFrame>>

\* clearCache up to the await of clear_cache; the button is disabled while
\* clearing.
ClearCacheStart ==
    /\ otherCalls < MaxCommands
    /\ otherCalls' = NextCall
    /\ ~clearing
    /\ clearing' = TRUE
    /\ inflight' = inflight \cup
          { [op |-> "clear_cache", id |-> NextCall, stage |-> "invoked"] }
    /\ last' = Step("clearCache", "none", NextCall, "start", FALSE)
    /\ UNCHANGED <<store, cacheSize, cacheFrame>>

\* The backend runs clear(): the entries of all namespaces go at once, or
\* the removal fails and nothing goes.  The temporary files of the puts
\* under way go with the entries or stay.
ClearCacheRuns ==
    \E c \in inflight :
        /\ c.op = "clear_cache" /\ c.stage = "invoked"
        /\ \E ok, wipe \in BOOLEAN :
              /\ ~ok => ~wipe
              /\ store' = IF ok THEN Cleared(store) ELSE store
              /\ inflight' =
                    { IF d = c THEN [c EXCEPT !.stage = IF ok THEN "done" ELSE "failed"]
                      ELSE IF wipe /\ d.op \in CacheCommands
                           THEN [d EXCEPT !.temp = <<>>]
                           ELSE d : d \in inflight }
              /\ last' = [op |-> "clear", id |-> c.id,
                          outcome |-> IF ok THEN "done" ELSE "failed",
                          removed |-> { e[1] : e \in { x \in DOMAIN store :
                                                         store[x] # NoEntry } }]
        /\ UNCHANGED <<cacheSize, clearing, otherCalls, cacheFrame>>

\* clear_cache resolved or rejected: setCacheSize("0 B") or the alert, then
\* finally setClearing(false).
ClearCacheSettled ==
    \E c \in inflight :
        /\ c.op = "clear_cache" /\ c.stage \in {"done", "failed"}
        /\ inflight' = inflight \ {c}
        /\ cacheSize' = SizeAfterClear(c.stage = "done", cacheSize)
        /\ clearing' = FALSE
        /\ last' = Step("clearCache", "none", c.id,
                        IF c.stage = "done" THEN "resolved" ELSE "failed", FALSE)
        /\ UNCHANGED <<store, otherCalls, cacheFrame>>

NextCache ==
    \/ CommandStart
    \/ CommandEngineFailed
    \/ CommandValidated
    \/ CommandPutCommitted
    \/ CommandPutFailed
    \/ GetCacheSizeResolved
    \/ GetCacheSizeFailed
    \/ ClearCacheStart
    \/ ClearCacheRuns
    \/ ClearCacheSettled

\* The settings modal has mounted over an empty cache: its effect has invoked
\* get_cache_size.
InitCacheSpec ==
    /\ repo = <<"r", " ">>
    /\ selectedPr = NoPr
    /\ hunks = <<>>
    /\ prs = <<>>
    /\ analysis = NoAnalysis
    /\ codexLog = <<>>
    /\ fromCache = FALSE
    /\ error = Null
    /\ loading = Null
    /\ requestIdRef = [s \in Streams |-> 0]
    /\ inflight = { [op |-> "get_cache_size", id |-> 0] }
    /\ otherCalls = 0
    /\ applied = [s \in Streams |-> 0]
    /\ last = Step("getCacheSize", "none", 0, "start", FALSE)
    /\ InitCache
    /\ InitView
    /\ InitAuto

SpecCache == InitCacheSpec /\ [][NextCache]_vars

\* --------------------------------------------------------- C11 .. C15
\* The step just taken returned a command to its caller.
CacheReturn ==
    last.op \in CacheCommands /\ last.outcome \notin {"invoked", "validated"}

\* The steps in which a command is called.
CommandStarts ==
    last'.op \in CacheCommands /\ otherCalls' = otherCalls + 1

\* The entry the command of a step concerns.
EntryOf(step) == << NamespaceOf(step.op), step.key >>

\* A command has just returned its validated result after storing it, and
\* the next thing to happen is a call of the same command with the same
\* inputs and without forceBypass, whose cache read succeeds.
CalledAgainAfterStore ==
    /\ CacheReturn
    /\ last.outcome = "ok"
    /\ last.io \in {"created", "overwritten"}
    /\ CommandStarts
    /\ last'.op = last.op /\ last'.key = last.key
    /\ ~last'.force /\ last'.io = "read"

ReturnsStoredPayload ==
    /\ last'.outcome = "ok"
    /\ last'.payload = last.payload
    /\ last'.servedFromCache
    /\ ~last'.invoked
    /\ inflight' = inflight

ClearEmptiesCache ==
    /\ [][ last'.op = "clear" /\ last'.outcome = "done" =>
             /\ \A e \in DOMAIN store : store'[e] = NoEntry
             /\ SizeBytes(store') = 0 ]_vars
    /\ [][ \A e \in DOMAIN store :
             store[e] = NoEntry /\ store'[e] # NoEntry =>
                 /\ last'.op \in CacheCommands
                 /\ last'.io = "created"
                 /\ e = EntryOf(last') ]_vars
    /\ [](last.op \in CacheCommands /\ last.servedFromCache =>
             store[EntryOf(last)] # NoEntry)
    /\ [][ cacheSize' # cacheSize =>
             \/ /\ last'.op = "clearCache" /\ last'.outcome = "resolved"
                /\ cacheSize' = FormatSize(0)
                /\ \E c \in inflight :
                      c.op = "clear_cache" /\ c.id = last'.id /\ c.stage = "done"
             \/ /\ last'.op = "getCacheSize" /\ last'.outcome = "resolved"
                /\ cacheSize' = FormatSize(SizeBytes(store)) ]_vars
    /\ [][ last'.op = "clearCache" /\ last'.outcome = "failed" =>
             cacheSize' = cacheSize ]_vars

\* C13 witness: clear() has just removed entries of two namespaces; nothing
\* is left, while the modal still shows the size it fetched before.
ClearedTwoNamespaces ==
    /\ last.op = "clear" /\ last.outcome = "done"
    /\ Cardinality(last.removed) = 2
    /\ \A e \in DOMAIN store : store[e] = NoEntry
    /\ SizeBytes(store) = 0
    /\ cacheSize # Null /\ cacheSize # FormatSize(0)

\* C14: a cache I/O error never reaches the caller.  A command returns "ok"
\* or a failure of the engine, of decoding or of validation; when its cache
\* write failed it still returns its own validated result with
\* servedFromCache = false; when its cache read failed it has invoked the
\* engine as on a miss.
CacheErrorsSwallowed ==
    /\ last.op \in CacheCommands =>
          last.outcome \in {"invoked", "validated", "ok"} \cup ErrorsOf(last.op)
    /\ last.op \in CacheCommands /\ last.io = "write failed" =>
          /\ last.outcome = "ok"
          /\ ~last.servedFromCache
          /\ last.payload = Payload(NamespaceOf(last.op), last.key, last.id)
    /\ last.op \in CacheCommands /\ last.io = "read failed" =>
          /\ last.outcome = "invoked"
          /\ \E c \in inflight : c.id = last.id /\ c.stage = "engine"

\* C14 witness: an analyze whose cache write failed has just returned its
\* result.
WriteFailureReturnedResult ==
    /\ last.op = "analyze" /\ last.io = "write failed"
    /\ last.outcome = "ok"
    /\ last.payload = Payload("analysis", last.key, last.id)

\* C15: whatever commands and clears interleave, an entry file is absent or
\* holds the complete payload some put stored for that entry, and a get that
\* hits returns such a payload, stored by an earlier call: never a half-
\* written or mixed one.
ReadersSeeWholePayloads ==
    /\ \A e \in DOMAIN store :
          \/ store[e] = NoEntry
          \/ \E id \in 1..otherCalls : store[e] = Payload(e[1], e[2], id)
    /\ last.op \in CacheCommands /\ last.servedFromCache =>
          \E id \in 1..(last.id - 1) :
              last.payload = Payload(NamespaceOf(last.op), last.key, id)

\* C15 witness: a get has just hit the old entry while the put of another
\* call on the same entry has written its temporary file and not yet renamed
\* it.
HitDuringPut ==
    /\ last.op \in CacheCommands /\ last.servedFromCache
    /\ \E c \in inflight :
          /\ c.op = last.op /\ c.key = last.key
          /\ c.stage = "put" /\ c.temp # <<>>

\* ------------------------------------------------------------------ C21
ValidationMessages ==
    {"Please enter a repository (owner/repo).", NoHunksMessage}
FailureMessages == AnalysisErrors \cup DiffErrors \cup ParseErrors \cup ListErrors

\* C21 as stated: a displayed error message changes only when the user
\* dismisses it or when the outcome of an operation (its success, its failure
\* or its validation failure) arrives.
ErrorKeptUntilOutcome ==
    [][ error # Null /\ error' # error =>
          \/ last'.op = "dismissError"
          \/ last'.outcome \in {"applied", "failed", "early"} ]_vars

\* C21 as amended: the error message changes only when the user dismisses
\* it, when an operation starts (selectPr, fetchPrs, runAnalysis and
\* refineGroup clear it at their start, or put their validation message), or
\* when an outcome that is applied sets it: the failure of an operation that
\* is still current on its stream, of any refineGroup, or an empty PR list.
\* Nothing else (a success, a dropped response, resetAnalysis,
\* clearSelection, an edit of the repository) changes it.
ErrorChangesOnlyByOperations ==
    [][ error' # error =>
          \/ last'.op = "dismissError" /\ error' = Null
          \/ last'.outcome = "start" /\ error' = Null
          \/ last'.outcome = "early" /\ error' \in ValidationMessages
          \/ /\ last'.outcome = "failed"
             /\ error' \in FailureMessages
             /\ last'.op \in EpochHandlers => ~last'.superseded
          \/ /\ last'.op = "fetchPrs" /\ last'.outcome = "applied"
             /\ prs' = <<>>
             /\ error' = "No open PRs found." ]_vars

\* C21 witness: resetAnalysis has just run while the message of a failed
\* analysis is displayed, and the message is still there.
ErrorSurvivesReset ==
    /\ last.op = "resetAnalysis"
    /\ error \in AnalysisErrors

\* ------------------------------------------------------------------ C22
DiffOps == {"selectPr", "clearSelection"}
AnalysisOps == {"runAnalysis", "refineGroup", "resetAnalysis"}

\* The awaited calls of the given operations.
Awaited(calls, ops) == { c \in calls : c.op \in ops }

\* C22: a step of selectPr or clearSelection (start, response or reset)
\* leaves the analysis stream's counter and analysis, codexLog and fromCache
\* as they are, and every awaited analysis operation stays awaited and as
\* current as it was; a step of runAnalysis, refineGroup or resetAnalysis leaves the
\* diff stream's counter, hunks and selectedPr as they are, and every awaited
\* selectPr stays awaited and current.  Neither touches the PR list's stream.
StreamsIndependent ==
    [][ /\ last'.op \in DiffOps =>
              /\ UNCHANGED <<analysis, codexLog, fromCache, prs, repo>>
              /\ requestIdRef'["analysis"] = requestIdRef["analysis"]
              /\ requestIdRef'["prs"] = requestIdRef["prs"]
              /\ requestIdRef'["diff"] \in
                    {requestIdRef["diff"], requestIdRef["diff"] + 1}
              /\ Awaited(inflight', AnalysisOps) = Awaited(inflight, AnalysisOps)
        /\ last'.op \in AnalysisOps =>
              /\ UNCHANGED <<hunks, selectedPr, prs, repo>>
              /\ requestIdRef'["diff"] = requestIdRef["diff"]
              /\ requestIdRef'["prs"] = requestIdRef["prs"]
              /\ requestIdRef'["analysis"] \in
                    {requestIdRef["analysis"], requestIdRef["analysis"] + 1}
              /\ Awaited(inflight', DiffOps) = Awaited(inflight, DiffOps) ]_vars

\* C22 witness: clearSelection has just run while a runAnalysis is awaited,
\* and that runAnalysis is still the current one of its stream.
SelectionClearedDuringAnalysis ==
    /\ last.op = "clearSelection"
    /\ \E c \in inflight : c.op = "runAnalysis" /\ c.id = requestIdRef["analysis"]

\* --------------------------------------------------------- getFileExtension
\* utils/fileExtension.ts.  A path is a sequence of characters; "a" and "b"
\* stand for every character that is neither a slash nor a dot.
MaxPathLen == 6

PathChars == {"/", ".", "a", "b"}

RECURSIVE PathsOfLen(_)
PathsOfLen(n) ==
    IF n = 0 THEN { <<>> }
    ELSE { Append(p, ch) : p \in PathsOfLen(n - 1), ch \in PathChars }

Paths == UNION { PathsOfLen(n) : n \in 0..MaxPathLen }

\* filePath.split("/"): the pieces between the slashes, at least one piece.
RECURSIVE SplitFrom(_, _, _)
SplitFrom(s, piece, pieces) ==
    IF s = <<>> THEN Append(pieces, piece)
    ELSE IF Head(s) = "/" THEN SplitFrom(Tail(s), <<>>, Append(pieces, piece))
         ELSE SplitFrom(Tail(s), Append(piece, Head(s)), pieces)

Split(s) == SplitFrom(s, <<>>, <<>>)

\* base.lastIndexOf("."): the 0-based index of the last dot, -1 without one.
LastIndexOf(base, ch) ==
    LET at == { i \in 1..Len(base) : base[i] = ch }
    IN IF at = {} THEN -1
       ELSE (CHOOSE i \in at : \A j \in at : j <= i) - 1

NoExt == << "(no ext)" >>

\* A test that only looks for a missing dot.
DotMissing(dotIdx) == dotIdx < 0

\* if (dotIdx <= 0)
DotMissingOrFirst(dotIdx) == dotIdx <= 0

getFileExtension(filePath) ==
    LET pieces == Split(filePath)
        base == pieces[Len(pieces)]                       \* .pop() ?? ""
        dotIdx == LastIndexOf(base, ".")
    IN IF DotMissingOrFirst(dotIdx) THEN NoExt
       ELSE SubSeq(base, dotIdx + 1, Len(base))           \* base.slice(dotIdx)

\* One path is handed to getFileExtension.
InitPath ==
    /\ repo = <<"r", " ">>
    /\ selectedPr = NoPr
    /\ hunks = <<>>
    /\ prs = <<>>
    /\ analysis = NoAnalysis
    /\ codexLog = <<>>
    /\ fromCache = FALSE
    /\ error = Null
    /\ loading = Null
    /\ requestIdRef = [s \in Streams |-> 0]
    /\ otherCalls = 0
    /\ applied = [s \in Streams |-> 0]
    /\ last = Step("init", "none", 0, "none", FALSE)
    /\ InitCache
    /\ InitView
    /\ InitAuto
    /\ \E p \in Paths : inflight = { [op |-> "getFileExtension", filePath |-> p] }

GetFileExtensionCall ==
    \E c \in inflight :
        /\ c.op = "getFileExtension"
        /\ inflight' = inflight \ {c}
        /\ last' = [op |-> "getFileExtension", filePath |-> c.filePath,
                    result |-> getFileExtension(c.filePath)]
        /\ UNCHANGED <<uiVars, requestIdRef, otherCalls, applied, cacheVars, viewVars, autoVars>>

NextPath == GetFileExtensionCall

SpecPath == InitPath /\ [][NextPath]_vars

\* ------------------------------------------------------------------ C23
\* The positions of the path at which an extension starts: a dot that has no
\* later dot or slash behind it, and a character other than a slash before
\* it.
ExtensionStarts(p) ==
    { i \in 2..Len(p) :
         /\ p[i] = "."
         /\ p[i - 1] # "/"
         /\ \A j \in (i + 1)..Len(p) : p[j] \notin {".", "/"} }

\* C23: for every path, getFileExtension returns the rest of the path from
\* the last dot of the last segment on, when that segment has a dot that is
\* not its first character, and "(no ext)" otherwise; dots of directory
\* names do not count.
ExtensionOfLastSegment ==
    last.op = "getFileExtension" =>
        LET p == last.filePath
        IN /\ \A i \in ExtensionStarts(p) : last.result = SubSeq(p, i, Len(p))
           /\ ExtensionStarts(p) = {} => last.result = NoExt

\* C23 witness: a path with a dot in a directory name and a dotfile as its
\* last segment.
DottedDirectoryAndDotfile ==
    /\ last.op = "getFileExtension"
    /\ last.filePath = << "a", ".", "b", "/", ".", "a" >>
    /\ last.result = NoExt

\* ------------------------------------------------------------------ C24
\* C24: whenever no backend call is awaited (every started runAnalysis,
\* refineGroup, selectPr and fetchPrs has got its response), the shared
\* loading message is null.
LoadingNullWhenIdle ==
    inflight = {} => loading = Null

\* ------------------------------------------- useAnalysis, closure version
\* The useAnalysis of part_008, whose refineGroup splices into the analysis
\* of the render in which it was called.  The specification starts with the
\* hunks of a PR and an analysis of them displayed, and follows the refine
\* calls made on it.
InitClosure ==
    /\ repo = <<"r", " ">>
    /\ \E pr \in PrNumbers :
          /\ selectedPr = pr
          /\ hunks = ParseDiff(DiffText(pr))
          /\ \E a \in AnalyzeResults(ParseDiff(DiffText(pr)), 0) :
                /\ a.groups # <<>>
                /\ analysis = a
    /\ prs = <<>>
    /\ codexLog = << 0 >>
    /\ fromCache \in BOOLEAN
    /\ error = Null
    /\ loading = Null
    /\ requestIdRef = [s \in Streams |-> 0]
    /\ inflight = {}
    /\ otherCalls = 0
    /\ applied = [s \in Streams |-> 0]
    /\ last = Step("init", "none", 0, "none", FALSE)
    /\ InitCache
    /\ InitView
    /\ InitAuto

\* refineGroup(group) of part_008 up to its await: the closure holds the
\* analysis of the render.
ClosureRefineGroupStart ==
    /\ CanStart
    /\ analysis # NoAnalysis
    /\ \E i \in 1..Len(analysis.groups) :
          /\ inflight' = inflight \cup
                { [op |-> "refineGroup", id |-> otherCalls + 1,
                   epoch |-> requestIdRef["analysis"],
                   group |-> analysis.groups[i], hunks |-> hunks,
                   analysis |-> analysis] }
          /\ last' = Step("refineGroup", "analysis", otherCalls + 1, "start", FALSE)
    /\ otherCalls' = otherCalls + 1
    /\ error' = Null
    /\ loading' = "Refining"
    /\ UNCHANGED <<cacheVars, viewVars, autoVars, repo, selectedPr, hunks, prs, analysis, codexLog, fromCache,
                   requestIdRef, applied>>

\* refineGroupApi resolved in part_008: if (!analysis) return; the loop over
\* analysis.groups of the closure; setAnalysis({ ...analysis, groups }).
ClosureRefineGroupResolved ==
    \E c \in inflight :
        /\ c.op = "refineGroup"
        /\ inflight' = inflight \ {c}
        /\ IF c.analysis = NoAnalysis
           THEN /\ last' = Step("refineGroup", "analysis", c.id, "dropped", FALSE)
                /\ UNCHANGED <<analysis, codexLog, fromCache>>
           ELSE /\ \E subGroups \in RefineResults(c.group) :
                      analysis' = [c.analysis EXCEPT
                          !.groups = SpliceGroups(c.analysis.groups, c.group.id, subGroups)]
                /\ codexLog' = Append(codexLog, 0)
                /\ \E cached \in BOOLEAN :
                      fromCache' = IF ~cached THEN FALSE ELSE fromCache
                /\ last' = Step("refineGroup", "analysis", c.id, "applied", FALSE)
        /\ loading' = Null
        /\ UNCHANGED <<cacheVars, viewVars, autoVars, repo, selectedPr, hunks, prs, error, requestIdRef,
                       otherCalls, applied>>

NextClosure ==
    \/ ClosureRefineGroupStart
    \/ ClosureRefineGroupResolved
    \/ RefineGroupFailed

SpecClosure == InitClosure /\ [][NextClosure]_vars

\* ------------------------------------------------------------------ C25
\* The refineGroup calls whose response the step applies.
RefinesApplied ==
    { c \in inflight \ inflight' :
         c.op = "refineGroup" /\ last'.op = "refineGroup" /\ last'.outcome = "applied" }

\* C25: when the response of a refineGroup is applied, every displayed group
\* other than the refined one is still there afterwards, the sub-groups an
\* overlapping refineGroup has spliced in among them; so after both responses
\* of two overlapping calls on distinct groups, in either order, the groups
\* hold the sub-groups of both.
RefineSplicesKeepEachOther ==
    [][ \A c \in RefinesApplied :
          analysis # NoAnalysis =>
             \A i \in 1..Len(analysis.groups) :
                analysis.groups[i].id # c.group.id =>
                   \E j \in 1..Len(analysis'.groups) :
                      analysis'.groups[j] = analysis.groups[i] ]_vars

\* Both groups of a two-group analysis have been refined by overlapping
\* calls, and the groups are the sub-groups of both, in place.
BothRefinementsDisplayed ==
    /\ last.op = "refineGroup" /\ last.outcome = "applied" /\ last.id = 1
    /\ otherCalls = 2
    /\ inflight = {}
    /\ analysis # NoAnalysis
    /\ Len(analysis.groups) = 2
    /\ analysis.groups[1].id = <<1, 1>>
    /\ analysis.groups[2].id = <<2, 1>>

\* ------------------------------------------------------------------ C26
HasGroup(a, gid) ==
    /\ a # NoAnalysis
    /\ \E i \in 1..Len(a.groups) : a.groups[i].id = gid

\* C26: when the response of a refineGroup is applied, the displayed
\* analysis changes only if it is non-null and has a group with the target's
\* id, and then only in its groups; after a reset, or when the target group
\* is gone, the analysis is left exactly as it is.
RefineOnlyTouchesItsTarget ==
    [][ \A c \in RefinesApplied :
          /\ ~HasGroup(analysis, c.group.id) => analysis' = analysis
          /\ HasGroup(analysis, c.group.id) =>
                /\ analysis' # NoAnalysis
                /\ \E groups \in {analysis'.groups} :
                      analysis' = [analysis EXCEPT !.groups = groups] ]_vars

\* C26 witness: the target group G1 has been refined by one call and the
\* response of a second call on G1 has just arrived; the sub-groups of the
\* first are displayed as they were.
SecondRefineOfSameGroup ==
    /\ last.op = "refineGroup" /\ last.outcome = "applied"
    /\ otherCalls = 2
    /\ ~\E c \in inflight : c.op = "refineGroup"
    /\ analysis # NoAnalysis
    /\ Len(analysis.groups) = 1
    /\ analysis.groups[1].id = <<1, 1>>
    /\ Len(codexLog) = 3

\* ------------------------------------------------------------------ C27
\* The effect's call: the step that sets triggered.current.
EffectFires == ~triggered /\ triggered'

\* A call of runAnalysis begins in this step.
RunAnalysisBegins ==
    /\ last'.op = "runAnalysis"
    /\ requestIdRef'["analysis"] = requestIdRef["analysis"] + 1

SelectionEffectPending ==
    /\ last.op \in {"runAnalysis", "refineGroup"}
    /\ last.outcome = "applied"
    /\ analysis # NoAnalysis

\* The test of the effect without the look-up among the groups.
SelectionSet(a, sel) == sel # NoSelection

\* selectedGroupId && analysis.groups.some((g) => g.id === selectedGroupId)
SelectionStillValid(a, sel) ==
    /\ sel # NoSelection
    /\ \E i \in 1..Len(a.groups) : a.groups[i].id = sel

\* The body of the effect.
SelectGroupEffect ==
    /\ SelectionEffectPending
    /\ IF Len(analysis.groups) > 0 /\ ~SelectionStillValid(analysis, selectedGroupId)
       THEN selectedGroupId' = analysis.groups[1].id
       ELSE UNCHANGED selectedGroupId
    /\ last' = Step("selectionEffect", "none", 0, "none", FALSE)
    /\ UNCHANGED <<uiVars, requestIdRef, inflight, otherCalls, applied, cacheVars,
                   autoVars, repoHistory>>

\* The rows of GroupsPane, rendered when an analysis is displayed: "All", one
\* row per group, and "Unassigned" when unassignedHunkIds is not empty.
GroupRows ==
    IF analysis = NoAnalysis THEN {}
    ELSE {NoSelection}
         \cup {analysis.groups[i].id : i \in 1..Len(analysis.groups)}
         \cup (IF Len(analysis.unassignedHunkIds) > 0 THEN {UNASSIGNED_GROUP_ID} ELSE {})

\* A click on a row: setSelectedGroupId.
onSelectGroup ==
    /\ \E row \in GroupRows : selectedGroupId' = row
    /\ last' = Step("onSelectGroup", "none", 0, "none", FALSE)
    /\ UNCHANGED <<uiVars, requestIdRef, inflight, otherCalls, applied, cacheVars,
                   autoVars, repoHistory>>

resetFiltering ==
    /\ selectedGroupId' = NoSelection
    /\ last' = Step("resetFiltering", "none", 0, "none", FALSE)
    /\ UNCHANGED <<uiVars, requestIdRef, inflight, otherCalls, applied, cacheVars,
                   autoVars, repoHistory>>

\* useMemo selectedGroup: the first group of the selected id, or null
\* (NoAnalysis stands for null here as for analysis).
selectedGroup(a, sel) ==
    IF a = NoAnalysis \/ sel = NoSelection THEN NoAnalysis
    ELSE LET found == { i \in 1..Len(a.groups) : a.groups[i].id = sel }
         IN IF found = {} THEN NoAnalysis
            ELSE a.groups[CHOOSE i \in found : \A j \in found : i <= j]

\* hunks.filter((h) => ids.includes(h.id))
RECURSIVE FilterHunks(_, _)
FilterHunks(hs, ids) ==
    IF hs = <<>> THEN <<>>
    ELSE (IF Head(hs).id \in Range(ids) THEN << Head(hs) >> ELSE <<>>)
         \o FilterHunks(Tail(hs), ids)

\* A displayedHunks without the branch of the unassigned pseudo-group.
displayedHunksOfGroupsOnly(hs, a, sel) ==
    IF selectedGroup(a, sel) # NoAnalysis
    THEN FilterHunks(hs, selectedGroup(a, sel).hunkIds)
    ELSE hs

\* useMemo displayedHunks.
displayedHunks(hs, a, sel) ==
    IF sel = UNASSIGNED_GROUP_ID /\ a # NoAnalysis
    THEN FilterHunks(hs, a.unassignedHunkIds)
    ELSE IF selectedGroup(a, sel) # NoAnalysis
         THEN FilterHunks(hs, selectedGroup(a, sel).hunkIds)
         ELSE hs

\* A repository is typed in; no PR selected yet.
InitFilter ==
    /\ InitHooks
    /\ InitAuto
    /\ Trim(repo) # <<>>

\* React runs the effect of a render before it handles the next event.
NextFilter ==
    \/ SelectGroupEffect
    \/ ~SelectionEffectPending /\ SelectPrStart
    \/ ~SelectionEffectPending /\ SelectPrDiffFetched
    \/ ~SelectionEffectPending /\ SelectPrParsed
    \/ ~SelectionEffectPending /\ SelectPrFailed
    \/ ~SelectionEffectPending /\ clearSelection
    \/ ~SelectionEffectPending /\ RunAnalysisStart
    \/ ~SelectionEffectPending /\ RunAnalysisResolved
    \/ ~SelectionEffectPending /\ RunAnalysisFailed
    \/ ~SelectionEffectPending /\ RefineGroupStart
    \/ ~SelectionEffectPending /\ RefineGroupResolved
    \/ ~SelectionEffectPending /\ RefineGroupFailed
    \/ ~SelectionEffectPending /\ resetAnalysis
    \/ ~SelectionEffectPending /\ onSelectGroup
    \/ ~SelectionEffectPending /\ resetFiltering

SpecFilter == InitFilter /\ [][NextFilter]_vars

\* The displayed analysis has just changed to one with at least one group.
AnalysisJustChanged ==
    /\ last.op \in {"runAnalysis", "refineGroup"}
    /\ last.outcome = "applied"
    /\ analysis # NoAnalysis
    /\ Len(analysis.groups) > 0

\* C28: each time the displayed analysis changes to one with at least one
\* group, the next thing that happens leaves the analysis as it is and sets
\* the selection: it is kept when it is the id of a group of the new
\* analysis, and is the id of the first group otherwise (no selection, the
\* unassigned pseudo-group, or the id of a group that is gone); so once the
\* selection has been set it names a group of the displayed analysis.
SelectionFollowsAnalysis ==
    /\ [][ AnalysisJustChanged =>
             /\ analysis' = analysis
             /\ selectedGroupId' =
                  IF HasGroup(analysis, selectedGroupId) THEN selectedGroupId
                  ELSE analysis.groups[1].id
             /\ HasGroup(analysis', selectedGroupId') ]_vars
    /\ [][ (analysis' # analysis /\ analysis' # NoAnalysis /\ Len(analysis'.groups) > 0)
             => AnalysisJustChanged' ]_vars

\* A refine has replaced the first group, and the selection, which named no
\* group of the new analysis, has moved to the first sub-group.
SelectionMovedToSubGroup ==
    /\ last.op = "selectionEffect"
    /\ analysis # NoAnalysis
    /\ Len(analysis.groups) = 2
    /\ analysis.groups[1].id = <<1, 1>>
    /\ analysis.groups[2].id = <<2>>
    /\ selectedGroupId = <<1, 1>>

\* d is a sub-list of s: d picks elements of s at strictly increasing places.
IsSubList(d, s) ==
    \E f \in [1..Len(d) -> 1..Len(s)] :
        /\ \A i \in 1..Len(d) : d[i] = s[f[i]]
        /\ \A i, j \in 1..Len(d) : i < j => f[i] < f[j]

\* The list displayed under the current selection.
Displayed == displayedHunks(hunks, analysis, selectedGroupId)

\* The selections that stand for a place of the analysis a: its groups and
\* the unassigned pseudo-group.
Places(a) == {a.groups[i].id : i \in 1..Len(a.groups)} \cup {UNASSIGNED_GROUP_ID}

\* C29: displayedHunks is an order-preserving sub-list of hunks; it holds
\* exactly the hunks whose id is in the selected group's hunkIds when the
\* selection names a group of the analysis, exactly those whose id is in
\* unassignedHunkIds when the unassigned pseudo-group is selected, and all
\* hunks otherwise; and when the analysis places every id of hunks exactly
\* once, every hunk is displayed under exactly one selection among the
\* groups and the unassigned pseudo-group.
DisplayedHunksFiltered ==
    /\ IsSubList(Displayed, hunks)
    /\ IF analysis # NoAnalysis /\ selectedGroupId = UNASSIGNED_GROUP_ID
       THEN \A i \in 1..Len(hunks) :
               hunks[i] \in Range(Displayed) <=>
                  hunks[i].id \in Range(analysis.unassignedHunkIds)
       ELSE IF HasGroup(analysis, selectedGroupId)
       THEN \E g \in Range(analysis.groups) :
               /\ g.id = selectedGroupId
               /\ \A i \in 1..Len(hunks) :
                     hunks[i] \in Range(Displayed) <=> hunks[i].id \in Range(g.hunkIds)
       ELSE Displayed = hunks
    /\ (analysis # NoAnalysis /\ CoversExactlyOnce(PlacedIds(analysis), HunkIdsOf(hunks)))
         => \A i \in 1..Len(hunks) :
               Cardinality({ sel \in Places(analysis) :
                   hunks[i] \in Range(displayedHunks(hunks, analysis, sel)) }) = 1

\* The unassigned pseudo-group is selected and shows the second hunk alone,
\* the first being shown under group G1.
UnassignedShown ==
    /\ selectedGroupId = UNASSIGNED_GROUP_ID
    /\ Len(hunks) = 2
    /\ analysis # NoAnalysis
    /\ CoversExactlyOnce(PlacedIds(analysis), HunkIdsOf(hunks))
    /\ Displayed = << hunks[2] >>
    /\ displayedHunks(hunks, analysis, <<1>>) = << hunks[1] >>

\* ------------------------------------------------------------------------
\* useRepoHistory (src/unnamed/part_009): the list of repositories kept in
\* localStorage under "prvw:repoHistory".  The stored JSON text of an array
\* of strings is modelled by the array it parses to, and the absent key by
\* the empty array loadHistory returns for it; the hook's repoHistory state
\* is set to loadHistory() in the same handler and equals the stored array.

REPO_HISTORY_MAX == 20

\* Largest number of persistRepo calls in one behaviour.
MaxPersists == 2

\* Repository names, by number: two more than the history can hold.
RepoNames == 1..(REPO_HISTORY_MAX + 2)

\* Array.prototype.filter((r) => r !== repo)
RECURSIVE Without(_, _)
Without(history, r) ==
    IF history = <<>> THEN <<>>
    ELSE (IF Head(history) # r THEN << Head(history) >> ELSE <<>>)
         \o Without(Tail(history), r)

\* A saveToHistory that does not filter the repository out first.
saveToHistoryUnfiltered(history, r) ==
    LET added == <<r>> \o history
    IN SubSeq(added, 1, IF Len(added) < REPO_HISTORY_MAX THEN Len(added)
                        ELSE REPO_HISTORY_MAX)

\* saveToHistory(repo), as a function of the array loadHistory returned:
\* filter, unshift, and the slice(0, REPO_HISTORY_MAX) that is stored.
saveToHistory(history, r) ==
    LET added == <<r>> \o Without(history, r)
    IN SubSeq(added, 1, IF Len(added) < REPO_HISTORY_MAX THEN Len(added)
                        ELSE REPO_HISTORY_MAX)

\* An earlier session has persisted the repositories 1..k one after the
\* other, for some k up to the size the history can have.
InitHistory ==
    /\ repo = <<"r", " ">>
    /\ selectedPr = NoPr
    /\ hunks = <<>>
    /\ prs = <<>>
    /\ analysis = NoAnalysis
    /\ codexLog = <<>>
    /\ fromCache = FALSE
    /\ error = Null
    /\ loading = Null
    /\ requestIdRef = [s \in Streams |-> 0]
    /\ inflight = {}
    /\ otherCalls = 0
    /\ applied = [s \in Streams |-> 0]
    /\ last = Step("init", "none", 0, "none", FALSE)
    /\ InitCache
    /\ InitAuto
    /\ selectedGroupId = NoSelection
    /\ \E k \in 0..REPO_HISTORY_MAX : repoHistory = [i \in 1..k |-> k + 1 - i]

\* persistRepo(repoValue): "prvw:repo" is set to repoValue (the step records
\* it), the history is saved and read back into the state.
persistRepo ==
    /\ otherCalls < MaxPersists
    /\ \E repoValue \in RepoNames :
          /\ repoHistory' = saveToHistory(repoHistory, repoValue)
          /\ last' = [op |-> "persistRepo", stream |-> "none", id |-> otherCalls + 1,
                      outcome |-> "applied", superseded |-> FALSE, repo |-> repoValue]
    /\ otherCalls' = otherCalls + 1
    /\ UNCHANGED <<uiVars, requestIdRef, inflight, applied, cacheVars, autoVars,
                   selectedGroupId>>

NextHistory == persistRepo

SpecHistory == InitHistory /\ [][NextHistory]_vars

\* No entry of the history occurs twice.
NoDuplicates(history) ==
    \A i, j \in 1..Len(history) : history[i] = history[j] => i = j

\* The place of x in the history.
Place(history, x) == CHOOSE i \in 1..Len(history) : history[i] = x

\* C30: the stored history never holds an entry twice nor more than 20
\* entries; a persistRepo puts its repository first and leaves the others in
\* the order they had, which is the order of their last use, dropping only
\* the last one and only when a new repository meets a full history; and
\* persisting a repository that is in the history keeps the length.
HistoryIsRecencyList ==
    /\ [][ /\ NoDuplicates(repoHistory')
           /\ Len(repoHistory') <= 20 ]_vars
    /\ [][ last'.op = "persistRepo" =>
             LET r == last'.repo
                 old == repoHistory
                 new == repoHistory'
                 kept == IF r \in Range(old) \/ Len(old) < 20
                         THEN Range(old) \ {r}
                         ELSE Range(old) \ {old[Len(old)]}
             IN /\ new[1] = r
                /\ Range(new) = {r} \cup kept
                /\ \A i \in 2..(Len(new) - 1) :
                      Place(old, new[i]) < Place(old, new[i + 1])
                /\ r \in Range(old) => Len(new) = Len(old) ]_vars

\* A full history has met a new repository and then one it held in the
\* middle: the oldest entry is gone and the length is still 20.
FullHistoryReordered ==
    /\ otherCalls = 2
    /\ Len(repoHistory) = 20
    /\ repoHistory[1] = 10
    /\ repoHistory[2] = 21
    /\ repoHistory[3] = 20
    /\ repoHistory[20] = 2

====
